---- MODULE Spec2Model ----
(***************************************************************************)
(* A model of the skills subsystem of adk-python: the data model           *)
(* (skills/models.py), the repository backends (in_memory_client.py,       *)
(* skill_set.py, file_system_client.py), the definition parser             *)
(* (file_loader.py), the schema validator (validator.py), the argument     *)
(* binder (scripts.py) and the dispatchers (tools/skill_tool.py).          *)
(*                                                                         *)
(* Python strings are modelled as sequences of one-character tokens, so    *)
(* that strip, lower, startswith and split are computed, not assumed.      *)
(* An Optional[...] value is a sequence of length 0 (None) or 1.           *)
(***************************************************************************)
EXTENDS Integers, Sequences, FiniteSets, TLC

VARIABLES
  backend,   \* which client class was constructed
  skills,    \* the _skills dict of each in-memory client, in insertion order
  fs,        \* the storage below FileSystemClient._base_path
  last,      \* the most recent client call and its outcome
  prev,      \* the client call before it
  fn_in,     \* argument of the pure function under check
  fn_out     \* its outcome

vars == <<backend, skills, fs, last, prev, fn_in, fn_out>>

----------------------------------------------------------------------------
(* Bounds of the model *)

\* the most entries an in-memory _skills dict holds in the model
MaxSkills == 2
\* the most lines of the header block of a document handed to parse_skill_md
MaxHeaderLines == 2
\* the most characters of the short names handed to validate_name
MaxNameLen == 4
\* the most words of the argument strings handed to to_function_input
MaxTokens == 3

----------------------------------------------------------------------------
(* Python str operations on token sequences *)

WS == {" ", "\n"}

\* str.lstrip(), str.rstrip()
lstrip(s) ==
  LET kept == {i \in 1..Len(s) : s[i] \notin WS}
  IN  IF kept = {} THEN <<>>
      ELSE SubSeq(s, CHOOSE i \in kept : \A j \in kept : i <= j, Len(s))

rstrip(s) ==
  LET kept == {i \in 1..Len(s) : s[i] \notin WS}
  IN  IF kept = {} THEN <<>>
      ELSE SubSeq(s, 1, CHOOSE i \in kept : \A j \in kept : j <= i)

\* str.strip()
strip(s) == rstrip(lstrip(s))

\* str.startswith(p)
startswith(s, p) == Len(s) >= Len(p) /\ SubSeq(s, 1, Len(p)) = p

\* str.endswith(p)
endswith(s, p) ==
  Len(s) >= Len(p) /\ SubSeq(s, Len(s) - Len(p) + 1, Len(s)) = p

\* index of the first occurrence of p in s at or after position i, 0 if none
find(s, p, i) ==
  LET at == {j \in i..(Len(s) - Len(p) + 1) : SubSeq(s, j, j + Len(p) - 1) = p}
  IN  IF at = {} THEN 0 ELSE CHOOSE j \in at : \A k \in at : j <= k

\* p in s
contains(s, p) == find(s, p, 1) # 0

\* str.lower() on the model's alphabet
lower_char(c) == IF c = "A" THEN "a" ELSE IF c = "FW_A" THEN "FW_a" ELSE c
lower(s) == [i \in 1..Len(s) |-> lower_char(s[i])]

\* str.isalnum() of one character; FW_A is FULLWIDTH LATIN CAPITAL LETTER A,
\* LIG_ffi is LATIN SMALL LIGATURE FFI
isalnum(c) ==
  c \in {"a", "b", "d", "e", "A", "1", "FW_A", "FW_a",
         "v", "l", "i", "s", "k", "f", "LIG_ffi"}

\* unicodedata.normalize("NFKC", s): the fullwidth forms fold to ASCII and
\* the ligature is spelled out
nfkc_char(c) ==
  IF c = "FW_A" THEN <<"A">>
  ELSE IF c = "FW_a" THEN <<"a">>
  ELSE IF c = "LIG_ffi" THEN <<"f", "f", "i">>
  ELSE <<c>>

RECURSIVE normalize_NFKC(_)
normalize_NFKC(s) ==
  IF s = <<>> THEN <<>>
  ELSE IF Len(s) = 1 THEN nfkc_char(s[1])
  ELSE LET half == Len(s) \div 2
       IN  normalize_NFKC(SubSeq(s, 1, half))
           \o normalize_NFKC(SubSeq(s, half + 1, Len(s)))

\* c * n
repeat(c, n) == [i \in 1..n |-> c]


----------------------------------------------------------------------------
(* skills/models.py *)

None == <<>>
Some(x) == <<x>>

\* dataclass Frontmatter; metadata is a dict, modelled as a sequence of
\* <<key, value>> pairs in insertion order
Frontmatter(name, description, license, compatibility, allowed_tools, metadata) ==
  [name |-> name, description |-> description, license |-> license,
   compatibility |-> compatibility, allowed_tools |-> allowed_tools,
   metadata |-> metadata]

\* dataclass Resources: three dicts from relative path to content
Resources(references, assets, scripts) ==
  [references |-> references, assets |-> assets, scripts |-> scripts]

\* dataclass Skill
Skill(frontmatter, instructions, resources) ==
  [frontmatter |-> frontmatter, instructions |-> instructions,
   resources |-> resources]

\* Skill.name
Skill_name(skill) == skill.frontmatter.name

\* Skill.description
Skill_description(skill) == skill.frontmatter.description

----------------------------------------------------------------------------
(* Python dict, as a sequence of <<key, value>> pairs with distinct keys *)

dict_keys(d) == {d[i][1] : i \in 1..Len(d)}

dict_index(d, k) == CHOOSE i \in 1..Len(d) : d[i][1] = k

\* d[k], for k in d
dict_get(d, k) == d[dict_index(d, k)][2]

\* d[k] = v: a present key keeps its position, a new key goes last
dict_set(d, k, v) ==
  IF k \in dict_keys(d)
  THEN [d EXCEPT ![dict_index(d, k)] = <<k, v>>]
  ELSE Append(d, <<k, v>>)

\* del d[k], for k in d
dict_del(d, k) ==
  LET i == dict_index(d, k)
  IN  SubSeq(d, 1, i - 1) \o SubSeq(d, i + 1, Len(d))

----------------------------------------------------------------------------
(* Outcomes of a call: a returned value or a raised exception *)

Return(v) == [ok |-> TRUE, exc |-> "", msg |-> "", val |-> v]
Raise(exc, msg) == [ok |-> FALSE, exc |-> exc, msg |-> msg, val |-> <<>>]

Call(op, arg, outcome) ==
  [op |-> op, arg |-> arg, ok |-> outcome.ok, exc |-> outcome.exc,
   msg |-> outcome.msg, val |-> outcome.val]

NoCall == Call("none", <<>>, Return(<<>>))

----------------------------------------------------------------------------
(* Python values of arbitrary type, as they come out of yaml.safe_load:     *)
(* t is the type's name and v a token sequence (the characters of a str,    *)
(* the literal of an int, the flattened key, value tokens of a nested dict) *)

PyVal(t, v) == [t |-> t, v |-> v]
Str(s) == PyVal("str", s)
PyInt(tok) == PyVal("int", <<tok>>)
PyNone == PyVal("NoneType", <<>>)
PyDict(flat) == PyVal("dict", flat)

\* the key, value tokens of a dict of strings, one after the other
RECURSIVE flatten(_)
flatten(d) ==
  IF d = <<>> THEN <<>> ELSE <<Head(d)[1], Head(d)[2]>> \o flatten(Tail(d))

\* isinstance(x, str)
is_str(x) == x.t = "str"

\* str(x) of a scalar token inside a nested mapping
str_of_token(tok) ==
  IF tok = "yaml:null" THEN "None"
  ELSE IF tok = "yaml:true" THEN "True"
  ELSE tok

----------------------------------------------------------------------------
(* skills/validator.py *)

MAX_SKILL_NAME_LENGTH == 64
MAX_DESCRIPTION_LENGTH == 1024
MAX_COMPATIBILITY_LENGTH == 500

ALLOWED_FRONTMATTER_FIELDS ==
  {"name", "description", "license", "allowed-tools", "metadata",
   "compatibility"}

\* one violation string: its fixed text and the value interpolated into it
Violation(msg, arg) == [msg |-> msg, arg |-> arg]

\* faulty variant, for comparison: consecutive hyphens are not looked for
validate_name_single_hyphens_unchecked(name, skill_dir) ==
  IF ~is_str(name) \/ strip(name.v) = <<>>
  THEN << Violation("Field 'name' must be a non-empty string", <<>>) >>
  ELSE
    LET n == normalize_NFKC(strip(name.v))
    IN  (IF Len(n) > MAX_SKILL_NAME_LENGTH
         THEN << Violation("Skill name exceeds character limit", n) >>
         ELSE <<>>)
        \o
        (IF n # lower(n)
         THEN << Violation("Skill name must be lowercase", n) >>
         ELSE <<>>)
        \o
        (IF startswith(n, <<"-">>) \/ endswith(n, <<"-">>)
         THEN << Violation("Skill name cannot start or end with a hyphen", <<>>) >>
         ELSE <<>>)
        \o
        (IF ~(\A i \in 1..Len(n) : isalnum(n[i]) \/ n[i] = "-")
         THEN << Violation("Skill name contains invalid characters", n) >>
         ELSE <<>>)
        \o
        (IF skill_dir # None /\ normalize_NFKC(skill_dir[1]) # n
         THEN << Violation("Directory name must match skill name", skill_dir[1]) >>
         ELSE <<>>)

validate_name(name, skill_dir) ==
  IF ~is_str(name) \/ strip(name.v) = <<>>
  THEN << Violation("Field 'name' must be a non-empty string", <<>>) >>
  ELSE
    LET n == normalize_NFKC(strip(name.v))
    IN  (IF Len(n) > MAX_SKILL_NAME_LENGTH
         THEN << Violation("Skill name exceeds character limit", n) >>
         ELSE <<>>)
        \o
        (IF n # lower(n)
         THEN << Violation("Skill name must be lowercase", n) >>
         ELSE <<>>)
        \o
        (IF startswith(n, <<"-">>) \/ endswith(n, <<"-">>)
         THEN << Violation("Skill name cannot start or end with a hyphen", <<>>) >>
         ELSE <<>>)
        \o
        (IF contains(n, <<"-", "-">>)
         THEN << Violation("Skill name cannot contain consecutive hyphens", <<>>) >>
         ELSE <<>>)
        \o
        (IF ~(\A i \in 1..Len(n) : isalnum(n[i]) \/ n[i] = "-")
         THEN << Violation("Skill name contains invalid characters", n) >>
         ELSE <<>>)
        \o
        (IF skill_dir # None /\ normalize_NFKC(skill_dir[1]) # n
         THEN << Violation("Directory name must match skill name", skill_dir[1]) >>
         ELSE <<>>)

validate_description(description) ==
  IF ~is_str(description) \/ strip(description.v) = <<>>
  THEN << Violation("Field 'description' must be a non-empty string", <<>>) >>
  ELSE IF Len(description.v) > MAX_DESCRIPTION_LENGTH
  THEN << Violation("Description exceeds character limit", <<>>) >>
  ELSE <<>>

validate_compatibility(compatibility) ==
  IF ~is_str(compatibility)
  THEN << Violation("Field 'compatibility' must be a string", <<>>) >>
  ELSE IF Len(compatibility.v) > MAX_COMPATIBILITY_LENGTH
  THEN << Violation("Compatibility exceeds character limit", <<>>) >>
  ELSE <<>>

\* sorted(keys): the keys of the set in the order of the fixed listing
RECURSIVE sorted_from(_, _)
sorted_from(order, keys) ==
  IF order = <<>> THEN <<>>
  ELSE (IF Head(order) \in keys THEN <<Head(order)>> ELSE <<>>)
       \o sorted_from(Tail(order), keys)

\* the header keys of the model in lexicographic order
KeyOrder ==
  <<"allowed-tools", "bogus-key", "compatibility", "description", "license",
    "metadata", "name", "zzz-key">>

\* faulty variant, for comparison: only the first extra key is reported
validate_metadata_fields_first_only(metadata) ==
  LET extra_fields == dict_keys(metadata) \ ALLOWED_FRONTMATTER_FIELDS
  IN  IF extra_fields # {}
      THEN << Violation("Unexpected fields in frontmatter",
                        SubSeq(sorted_from(KeyOrder, extra_fields), 1, 1)) >>
      ELSE <<>>

validate_metadata_fields(metadata) ==
  LET extra_fields == dict_keys(metadata) \ ALLOWED_FRONTMATTER_FIELDS
  IN  IF extra_fields # {}
      THEN << Violation("Unexpected fields in frontmatter",
                        sorted_from(KeyOrder, extra_fields)) >>
      ELSE <<>>

validate_metadata(metadata, skill_dir) ==
  validate_metadata_fields(metadata)
  \o
  (IF "name" \notin dict_keys(metadata)
   THEN << Violation("Missing required field in frontmatter: name", <<>>) >>
   ELSE validate_name(dict_get(metadata, "name"), skill_dir))
  \o
  (IF "description" \notin dict_keys(metadata)
   THEN << Violation("Missing required field in frontmatter: description", <<>>) >>
   ELSE validate_description(dict_get(metadata, "description")))
  \o
  (IF "compatibility" \in dict_keys(metadata)
   THEN validate_compatibility(dict_get(metadata, "compatibility"))
   ELSE <<>>)

\* the metadata dict that validate and validate_skill rebuild from a Frontmatter
frontmatter_as_metadata(frontmatter) ==
  << <<"name", Str(frontmatter.name)>>,
     <<"description", Str(frontmatter.description)>> >>
  \o (IF frontmatter.license # None
      THEN << <<"license", frontmatter.license[1]>> >> ELSE <<>>)
  \o (IF frontmatter.compatibility # None
      THEN << <<"compatibility", frontmatter.compatibility[1]>> >> ELSE <<>>)
  \o (IF frontmatter.allowed_tools # None
      THEN << <<"allowed-tools", frontmatter.allowed_tools[1]>> >> ELSE <<>>)
  \o (IF frontmatter.metadata # <<>>
      THEN << <<"metadata", PyDict(flatten(frontmatter.metadata))>> >>
      ELSE <<>>)

validate_skill(skill) ==
  validate_metadata(frontmatter_as_metadata(skill.frontmatter), None)

----------------------------------------------------------------------------
(* Documents.  A document is a sequence of tokens: the characters "-", " " *)
(* and "\n"; "x", a line of plain text; "[", a line that opens a flow       *)
(* sequence and never closes it; and the key/value lines of YamlLines,     *)
(* each a complete line of its own.                                        *)

\* the key and the value that yaml.safe_load reads from a key/value line
yaml_line(tok) ==
  CASE tok = "name: a" -> <<"name", Str(<<"a">>)>>
    [] tok = "name: b" -> <<"name", Str(<<"b">>)>>
    [] tok = "name: A" -> <<"name", Str(<<"A">>)>>
    [] tok = "name: ' a '" -> <<"name", Str(<<" ", "a", " ">>)>>
    [] tok = "name: ' '" -> <<"name", Str(<<" ">>)>>
    [] tok = "name: 42" -> <<"name", PyInt("42")>>
    [] tok = "name: ~" -> <<"name", PyNone>>
    [] tok = "description: d" -> <<"description", Str(<<"d">>)>>
    [] tok = "description: ' e '" -> <<"description", Str(<<" ", "e", " ">>)>>
    [] tok = "description: ''" -> <<"description", Str(<<>>)>>
    [] tok = "description: ~" -> <<"description", PyNone>>
    [] tok = "license: MIT" -> <<"license", Str(<<"M", "I", "T">>)>>
    [] tok = "compatibility: c" -> <<"compatibility", Str(<<"c">>)>>
    [] tok = "compatibility: 7" -> <<"compatibility", PyInt("7")>>
    [] tok = "allowed-tools: t" -> <<"allowed-tools", Str(<<"t">>)>>
    [] tok = "metadata: {k: 1}" -> <<"metadata", PyDict(<<"k", "1">>)>>
    [] tok = "metadata: {k: ~}" -> <<"metadata", PyDict(<<"k", "yaml:null">>)>>
    [] tok = "metadata: m" -> <<"metadata", Str(<<"m">>)>>
    [] tok = "bogus-key: x" -> <<"bogus-key", Str(<<"x">>)>>
    [] tok = "zzz-key: x" -> <<"zzz-key", Str(<<"x">>)>>

YamlLines ==
  {"name: a", "name: b", "name: A", "name: ' a '", "name: ' '", "name: 42",
   "name: ~", "description: d", "description: ' e '", "description: ''",
   "description: ~", "license: MIT", "compatibility: c", "compatibility: 7",
   "allowed-tools: t", "metadata: {k: 1}", "metadata: {k: ~}", "metadata: m",
   "bogus-key: x", "zzz-key: x"}

\* what yaml.safe_load returns or raises
YamlError == [kind |-> "YAMLError", items |-> <<>>]
YamlNone == [kind |-> "NoneType", items |-> <<>>]
YamlOther == [kind |-> "other", items |-> <<>>]
YamlDict(items) == [kind |-> "dict", items |-> items]

\* the mapping built from key/value lines: a repeated key keeps its first
\* position and takes its last value
RECURSIVE yaml_mapping(_, _)
yaml_mapping(lines, acc) ==
  IF lines = <<>> THEN acc
  ELSE LET kv == yaml_line(Head(lines))
       IN  yaml_mapping(Tail(lines), dict_set(acc, kv[1], kv[2]))

not_ws(tok) == tok \notin WS

\* the outcomes yaml.safe_load can have on a header block.  Blocks of
\* key/value lines, of plain text and empty blocks have one outcome; a block
\* in which hyphens stand next to text is a sequence, a scalar or a syntax
\* error depending on layout the tokens do not record, so both a non-mapping
\* value and an error are possible.
yaml_safe_load(block) ==
  LET toks == SelectSeq(block, not_ws)
      elems == {toks[i] : i \in 1..Len(toks)}
      has_lines == elems \cap YamlLines # {}
  IN  IF "[" \in elems THEN {YamlError}
      ELSE IF elems = {} THEN {YamlNone}
      ELSE IF elems \subseteq YamlLines
      THEN {YamlDict(yaml_mapping(toks, <<>>))}
      ELSE IF elems = {"x"} THEN {YamlOther}
      ELSE IF elems = {"-"} THEN
        IF "\n" \in {block[i] : i \in 1..Len(block)}
        THEN {YamlOther, YamlError} ELSE {YamlOther}
      ELSE IF has_lines THEN {YamlError}
      ELSE {YamlOther, YamlError}

----------------------------------------------------------------------------
(* skills/file_loader.py: parse_skill_md *)

Delimiter == <<"-", "-", "-">>

\* faulty variant, for comparison: the header block runs to the last delimiter
split_at_last(s) ==
  LET i1 == find(s, Delimiter, 1)
      later == {i \in 1..Len(s) : i >= i1 + 3 /\ find(s, Delimiter, i) = i}
      i2 == IF i1 = 0 \/ later = {} THEN 0
            ELSE CHOOSE i \in later : \A j \in later : j <= i
  IN  IF i1 = 0 THEN << s >>
      ELSE IF i2 = 0
      THEN << SubSeq(s, 1, i1 - 1), SubSeq(s, i1 + 3, Len(s)) >>
      ELSE << SubSeq(s, 1, i1 - 1), SubSeq(s, i1 + 3, i2 - 1),
              SubSeq(s, i2 + 3, Len(s)) >>

\* s.split("---", 2)
split_2(s) ==
  LET i1 == find(s, Delimiter, 1)
      i2 == IF i1 = 0 THEN 0 ELSE find(s, Delimiter, i1 + 3)
  IN  IF i1 = 0 THEN << s >>
      ELSE IF i2 = 0
      THEN << SubSeq(s, 1, i1 - 1), SubSeq(s, i1 + 3, Len(s)) >>
      ELSE << SubSeq(s, 1, i1 - 1), SubSeq(s, i1 + 3, i2 - 1),
              SubSeq(s, i2 + 3, Len(s)) >>

\* {str(k): str(v) for k, v in metadata["metadata"].items()}
RECURSIVE str_items(_)
str_items(flat) ==
  IF Len(flat) < 2 THEN <<>>
  ELSE << <<str_of_token(flat[1]), str_of_token(flat[2])>> >>
       \o str_items(SubSeq(flat, 3, Len(flat)))

\* the optional keyword argument of Frontmatter read from the mapping: a key
\* that is absent, or present with the value None, leaves the field None
optional_field(metadata, key) ==
  IF key \in dict_keys(metadata) /\ dict_get(metadata, key) # PyNone
  THEN Some(dict_get(metadata, key))
  ELSE None

\* faulty variant, for comparison: only name is tested for presence; reading description fails
parse_loaded_name_only(loaded, body) ==
  IF loaded.kind = "YAMLError"
  THEN Raise("ValueError", "Invalid YAML in frontmatter")
  ELSE IF loaded.kind # "dict"
  THEN Raise("ValueError", "SKILL.md frontmatter must be a YAML mapping")
  ELSE
    LET metadata == loaded.items
        keys == dict_keys(metadata)
    IN  IF "name" \notin keys
        THEN Raise("ValueError", "Missing required field in frontmatter: name")
        ELSE IF "description" \notin keys
        THEN Raise("KeyError", "description")
        ELSE
          LET name == dict_get(metadata, "name")
              description == dict_get(metadata, "description")
          IN  IF ~is_str(name) \/ strip(name.v) = <<>>
              THEN Raise("ValueError", "Field 'name' must be a non-empty string")
              ELSE IF ~is_str(description) \/ strip(description.v) = <<>>
              THEN Raise("ValueError",
                         "Field 'description' must be a non-empty string")
              ELSE Return(
                [frontmatter |->
                   Frontmatter(
                     strip(name.v), strip(description.v),
                     optional_field(metadata, "license"),
                     optional_field(metadata, "compatibility"),
                     optional_field(metadata, "allowed-tools"),
                     IF "metadata" \in keys
                        /\ dict_get(metadata, "metadata").t = "dict"
                     THEN str_items(dict_get(metadata, "metadata").v)
                     ELSE <<>>),
                 body |-> body])

\* parse_skill_md from the isinstance check on, given what safe_load gave
parse_loaded(loaded, body) ==
  IF loaded.kind = "YAMLError"
  THEN Raise("ValueError", "Invalid YAML in frontmatter")
  ELSE IF loaded.kind # "dict"
  THEN Raise("ValueError", "SKILL.md frontmatter must be a YAML mapping")
  ELSE
    LET metadata == loaded.items
        keys == dict_keys(metadata)
    IN  IF "name" \notin keys
        THEN Raise("ValueError", "Missing required field in frontmatter: name")
        ELSE IF "description" \notin keys
        THEN Raise("ValueError",
                   "Missing required field in frontmatter: description")
        ELSE
          LET name == dict_get(metadata, "name")
              description == dict_get(metadata, "description")
          IN  IF ~is_str(name) \/ strip(name.v) = <<>>
              THEN Raise("ValueError", "Field 'name' must be a non-empty string")
              ELSE IF ~is_str(description) \/ strip(description.v) = <<>>
              THEN Raise("ValueError",
                         "Field 'description' must be a non-empty string")
              ELSE Return(
                [frontmatter |->
                   Frontmatter(
                     strip(name.v), strip(description.v),
                     optional_field(metadata, "license"),
                     optional_field(metadata, "compatibility"),
                     optional_field(metadata, "allowed-tools"),
                     IF "metadata" \in keys
                        /\ dict_get(metadata, "metadata").t = "dict"
                     THEN str_items(dict_get(metadata, "metadata").v)
                     ELSE <<>>),
                 body |-> body])

\* the outcomes of parse_skill_md(skill_md_str)
parse_skill_md(skill_md_str) ==
  IF ~startswith(skill_md_str, Delimiter)
  THEN {Raise("ValueError", "SKILL.md must start with YAML frontmatter (---)")}
  ELSE
    LET parts == split_2(skill_md_str)
    IN  IF Len(parts) < 3
        THEN {Raise("ValueError",
                    "SKILL.md frontmatter not properly closed with ---")}
        ELSE {parse_loaded(loaded, strip(parts[3])) :
                loaded \in yaml_safe_load(parts[2])}

----------------------------------------------------------------------------
(* The storage of the file-based backend.  The base path is missing, a     *)
(* regular file or a directory; a directory holds entries by name.  An     *)
(* entry is absent, a regular file or a directory that may hold SKILL.md,  *)
(* skill.md and the three resource sub-directories.                        *)

NoFile == [kind |-> "absent", text |-> <<>>]
DirAsFile == [kind |-> "dir", text |-> <<>>]
Undecodable == [kind |-> "undecodable", text |-> <<>>]
TextFile(text) == [kind |-> "text", text |-> text]

NoSub == [kind |-> "absent", files |-> <<>>]
SubDir(files) == [kind |-> "dir", files |-> files]

Entry(kind, SKILL_md, skill_md, references, assets, scripts) ==
  [kind |-> kind, SKILL_md |-> SKILL_md, skill_md |-> skill_md,
   references |-> references, assets |-> assets, scripts |-> scripts]

AbsentEntry == Entry("absent", NoFile, NoFile, NoSub, NoSub, NoSub)
FileEntry == Entry("file", NoFile, NoFile, NoSub, NoSub, NoSub)
SkillDir(SKILL_md, skill_md, references, assets, scripts) ==
  Entry("dir", SKILL_md, skill_md, references, assets, scripts)

\* path.exists(), path.is_dir(), path.is_file()
exists(node) == node.kind # "absent"
is_dir(node) == node.kind = "dir"
is_file(node) == node.kind \in {"text", "undecodable", "file"}

\* read_file(path): Optional[str]
read_file(file) ==
  IF is_file(file) /\ file.kind = "text" THEN Some(file.text) ELSE None

\* load_directory_files(directory): the readable files below it
RECURSIVE load_files(_)
load_files(files) ==
  IF files = <<>> THEN <<>>
  ELSE LET path == Head(files)[1]
           content == read_file(Head(files)[2])
       IN  (IF is_file(Head(files)[2]) /\ content # None
            THEN << <<path, content[1]>> >> ELSE <<>>)
           \o load_files(Tail(files))

load_directory_files(directory) ==
  IF ~exists(directory) \/ ~is_dir(directory) THEN <<>>
  ELSE load_files(directory.files)

\* load_skill_md(skill_dir): the outcomes of locating, reading and parsing
load_skill_md(skill_dir) ==
  LET found ==
        IF is_dir(skill_dir) /\ exists(skill_dir.SKILL_md)
        THEN Some(skill_dir.SKILL_md)
        ELSE IF is_dir(skill_dir) /\ exists(skill_dir.skill_md)
        THEN Some(skill_dir.skill_md)
        ELSE None
  IN  IF found = None
      THEN {Raise("ValueError", "SKILL.md not found")}
      ELSE IF read_file(found[1]) = None
      THEN {Raise("ValueError", "Could not read SKILL.md")}
      ELSE parse_skill_md(read_file(found[1])[1])

\* load_skill(skill_dir): the outcomes of loading the whole skill
load_skill(skill_dir) ==
  IF ~is_dir(skill_dir)
  THEN {Raise("FileNotFoundError", "Skill directory not found")}
  ELSE IF ~exists(skill_dir.SKILL_md) /\ ~exists(skill_dir.skill_md)
  THEN {Raise("FileNotFoundError", "SKILL.md not found")}
  ELSE {IF md.ok
        THEN Return(Skill(md.val.frontmatter, md.val.body,
                          Resources(load_directory_files(skill_dir.references),
                                    load_directory_files(skill_dir.assets),
                                    load_directory_files(skill_dir.scripts))))
        ELSE md :
        md \in load_skill_md(skill_dir)}

----------------------------------------------------------------------------
(* skills/validator.py: validate, which reads the directory *)

\* faulty variant, for comparison: a failure of load_skill_md is not caught
validate_uncaught(dir_name, skill_dir) ==
  IF ~exists(skill_dir)
  THEN {Return(<< Violation("Skill directory does not exist", dir_name) >>)}
  ELSE IF ~is_dir(skill_dir)
  THEN {Return(<< Violation("Path is not a directory", dir_name) >>)}
  ELSE {IF md.ok
        THEN Return(validate_metadata(frontmatter_as_metadata(md.val.frontmatter),
                                      Some(dir_name)))
        ELSE md :
        md \in load_skill_md(skill_dir)}

\* validate(skill_dir): the outcomes for the directory of that name
validate(dir_name, skill_dir) ==
  IF ~exists(skill_dir)
  THEN {Return(<< Violation("Skill directory does not exist", dir_name) >>)}
  ELSE IF ~is_dir(skill_dir)
  THEN {Return(<< Violation("Path is not a directory", dir_name) >>)}
  ELSE {IF md.ok
        THEN Return(validate_metadata(frontmatter_as_metadata(md.val.frontmatter),
                                      Some(dir_name)))
        ELSE IF md.exc = "ValueError"
        THEN Return(<< Violation(md.msg, <<>>) >>)
        ELSE md :
        md \in load_skill_md(skill_dir)}

----------------------------------------------------------------------------
(* skills/in_memory_client.py, skills/skill_set.py: the methods, each      *)
(* giving the _skills dict it leaves and its outcome                       *)

Effect(store, out) == [skills |-> store, out |-> out]

\* what list() returns: a list of headers, or a dict from key to header
ListOf(items) == [type |-> "list", items |-> items]
DictOf(items) == [type |-> "dict", items |-> items]

InMemoryClient_list(store) ==
  Effect(store,
         Return(ListOf([i \in 1..Len(store) |-> store[i][2].frontmatter])))

\* faulty variant, for comparison: create over a present entry keeps the old description
InMemoryClient_create_merges(store, skill) ==
  IF Skill_name(skill) \in dict_keys(store)
  THEN Effect(dict_set(store, Skill_name(skill),
                       [skill EXCEPT !.frontmatter.description =
                          dict_get(store, Skill_name(skill)).frontmatter.description]),
              Return(skill))
  ELSE Effect(Append(store, <<Skill_name(skill), skill>>), Return(skill))

InMemoryClient_create(store, skill) ==
  Effect(dict_set(store, Skill_name(skill), skill), Return(skill))

\* faulty variant, for comparison: delete removes the entry stored last (dict.popitem)
InMemoryClient_delete_popitem(store, skill_id) ==
  IF skill_id \in dict_keys(store)
  THEN Effect(SubSeq(store, 1, Len(store) - 1), Return(None))
  ELSE Effect(store, Return(None))

InMemoryClient_delete(store, skill_id) ==
  IF skill_id \in dict_keys(store)
  THEN Effect(dict_del(store, skill_id), Return(None))
  ELSE Effect(store, Return(None))

\* faulty variant, for comparison: retrieve returns None for a missing key (dict.get)
InMemoryClient_retrieve_get(store, skill_id) ==
  IF skill_id \notin dict_keys(store)
  THEN Effect(store, Return(None))
  ELSE Effect(store, Return(dict_get(store, skill_id)))

InMemoryClient_retrieve(store, skill_id) ==
  IF skill_id \notin dict_keys(store)
  THEN Effect(store, Raise("ValueError", "Skill not found"))
  ELSE Effect(store, Return(dict_get(store, skill_id)))

InMemoryClient_enable(store, skill_id) == Effect(store, Return(None))

InMemoryClient_disable(store, skill_id) == Effect(store, Return(None))

Skills_workspace == <<"/", "m", "e", "m", "o", "r", "y">>

Skills_list(store) ==
  Effect(store,
         Return(DictOf([i \in 1..Len(store) |->
                          <<store[i][1], store[i][2].frontmatter>>])))

\* faulty variant, for comparison: create keeps an entry that is already there (dict.setdefault)
Skills_create_keeps_existing(store, skill) ==
  IF Skill_name(skill) \in dict_keys(store)
  THEN Effect(store, Return(skill))
  ELSE Effect(Append(store, <<Skill_name(skill), skill>>), Return(skill))

\* faulty variant, for comparison: create files the skill under its description
Skills_create_by_description(store, skill) ==
  Effect(dict_set(store, Skill_description(skill), skill), Return(skill))

Skills_create(store, skill) ==
  Effect(dict_set(store, Skill_name(skill), skill), Return(skill))

\* faulty variant, for comparison: delete without the membership test
Skills_delete_unguarded(store, skill_id) ==
  IF skill_id \in dict_keys(store)
  THEN Effect(dict_del(store, skill_id), Return(None))
  ELSE Effect(store, Raise("KeyError", ""))

Skills_delete(store, skill_id) ==
  IF skill_id \in dict_keys(store)
  THEN Effect(dict_del(store, skill_id), Return(None))
  ELSE Effect(store, Return(None))

Skills_retrieve(store, skill_id) ==
  IF skill_id \notin dict_keys(store)
  THEN Effect(store, Raise("ValueError", "Skill not found"))
  ELSE Effect(store, Return(dict_get(store, skill_id)))

\* f"{self.workspace}/{skill_id}/SKILL.md"
Skills_location(store, skill_id) ==
  Effect(store,
         Return(Some(Skills_workspace \o <<"/">> \o skill_id
                     \o <<"/", "SKILL.md">>)))

Skills_enable(store, skill_id) == Effect(store, Return(None))

Skills_disable(store, skill_id) == Effect(store, Return(None))

\* BaseClient.location, which InMemoryClient and FileSystemClient inherit
BaseClient_location(skill_id) == Raise("NotImplementedError", "")

----------------------------------------------------------------------------
(* skills/file_system_client.py *)

\* self._base_path / skill_id
base_path_child(storage, skill_id) ==
  IF storage.root = "dir" /\ skill_id \in DOMAIN storage.entries
  THEN storage.entries[skill_id]
  ELSE AbsentEntry

\* the headers list() collects when iterdir yields the entries in this order
RECURSIVE collect_headers(_, _, _)
collect_headers(storage, order, pick) ==
  IF order = <<>> THEN <<>>
  ELSE LET item == storage.entries[Head(order)]
       IN  (IF exists(item) /\ is_dir(item) /\ pick[Head(order)].ok
            THEN << pick[Head(order)].val.frontmatter >> ELSE <<>>)
           \o collect_headers(storage, Tail(order), pick)

\* the outcomes of FileSystemClient.list(): iterdir yields the entries in an
\* arbitrary order
FileSystemClient_list(storage) ==
  IF storage.root = "missing" THEN {Return(ListOf(<<>>))}
  ELSE IF storage.root # "dir" THEN {Raise("NotADirectoryError", "")}
  ELSE
    LET names == DOMAIN storage.entries
        outcomes == UNION {load_skill_md(storage.entries[n]) : n \in names}
        picks == {pick \in [names -> outcomes] :
                    \A n \in names : pick[n] \in load_skill_md(storage.entries[n])}
        orders == {o \in [1..Cardinality(names) -> names] :
                     \A i, j \in DOMAIN o : i # j => o[i] # o[j]}
    IN  {Return(ListOf(collect_headers(storage, o, pick))) :
           o \in orders, pick \in picks}

FileSystemClient_create(skill) ==
  Raise("NotImplementedError", "Creating skills is not supported yet.")

FileSystemClient_delete(skill_id) ==
  Raise("NotImplementedError", "Deleting skills is not supported yet.")

\* faulty variant, for comparison: retrieve answers from the previous retrieve of the same identifier
FileSystemClient_retrieve_cached(storage, skill_id) ==
  LET skill_dir == base_path_child(storage, skill_id)
  IN  IF last.op = "retrieve" /\ last.arg = skill_id /\ last.ok
      THEN {Return(last.val)}
      ELSE IF ~exists(skill_dir)
      THEN {Raise("ValueError", "Skill not found")}
      ELSE {IF loaded.ok THEN loaded
            ELSE Raise("ValueError", "Failed to load skill") :
            loaded \in load_skill(skill_dir)}

\* the outcomes of FileSystemClient.retrieve(skill_id)
FileSystemClient_retrieve(storage, skill_id) ==
  LET skill_dir == base_path_child(storage, skill_id)
  IN  IF ~exists(skill_dir)
      THEN {Raise("ValueError", "Skill not found")}
      ELSE {IF loaded.ok THEN loaded
            ELSE Raise("ValueError", "Failed to load skill") :
            loaded \in load_skill(skill_dir)}

\* faulty variant, for comparison: enable refuses, as create and delete do
FileSystemClient_enable_unsupported(skill_id) ==
  Raise("NotImplementedError", "Enabling skills is not supported yet.")

FileSystemClient_enable(skill_id) == Return(None)

FileSystemClient_disable(skill_id) == Return(None)

----------------------------------------------------------------------------
(* The skills, identifiers and storage contents the model draws from *)

\* the names of the skills handed to create: two valid ones, one in
\* uppercase and the empty name
MemNames == {<<"a">>, <<"b">>, <<"A">>, <<>>}

MemSkill(n, d) ==
  Skill(Frontmatter(n, d, None, None, None, <<>>), <<"x">>,
        Resources(<<>>, <<>>, <<>>))

\* the skills handed to create; two of them share the name "a"
MemSkills ==
  {MemSkill(n, <<"d">>) : n \in MemNames} \cup {MemSkill(<<"a">>, <<"e">>)}

\* an identifier that names no skill
Ghost == <<"g">>
SkillIds == MemNames \cup {Ghost}
\* the identifiers handed to enable, disable and location
ToggleIds == {<<"a">>, Ghost}

DocA == Delimiter \o <<"name: a", "description: d">> \o Delimiter \o <<"\n", "x">>
DocB == Delimiter \o <<"name: b", "description: ' e '", "license: MIT">>
        \o Delimiter \o <<"x", "\n">>
DocNoDescription == Delimiter \o <<"name: a">> \o Delimiter

OneFile(path, file) == SubDir(<< <<path, file>> >>)

ValidDirA == SkillDir(TextFile(DocA), NoFile, NoSub, NoSub, NoSub)
ValidDirB ==
  SkillDir(TextFile(DocB), NoFile, OneFile("r.md", TextFile(<<"x">>)),
           OneFile("t.txt", TextFile(<<"x">>)),
           OneFile("run.py", TextFile(<<"x">>)))
InvalidDir == SkillDir(TextFile(DocNoDescription), NoFile, NoSub, NoSub, NoSub)

\* the states of one entry of the base directory
DirStates ==
  {AbsentEntry,
   FileEntry,
   SkillDir(NoFile, NoFile, NoSub, NoSub, NoSub),
   ValidDirA,
   ValidDirB,
   InvalidDir,
   SkillDir(DirAsFile, TextFile(DocA), NoSub, NoSub, NoSub),
   SkillDir(NoFile, TextFile(DocA), NoSub, NoSub,
            OneFile("run.py", Undecodable))}

\* the entry names of the base directory: "a" takes every state, "b" is
\* absent or a valid or invalid skill directory, "c" is never a directory
FsNames == {<<"a">>, <<"b">>, <<"c">>}
EntryStates(n) ==
  IF n = <<"a">> THEN DirStates
  ELSE IF n = <<"b">> THEN {AbsentEntry, ValidDirB, InvalidDir}
  ELSE {AbsentEntry, FileEntry}

FsIds == FsNames \cup {Ghost}
FsSkills == {MemSkill(<<"a">>, <<"e">>)}

Storage(root, entries) == [root |-> root, entries |-> entries]
EmptyStorage == Storage("dir", [n \in FsNames |-> AbsentEntry])

InMemoryBackends == {"InMemoryClient", "Skills"}
Backends == InMemoryBackends \cup {"FileSystemClient"}

----------------------------------------------------------------------------
(* The repository as a state machine: one client is constructed, then any  *)
(* of its methods is called; the storage of the file-based client changes  *)
(* under it.                                                               *)

Init ==
  /\ backend \in Backends
  /\ skills = [b \in InMemoryBackends |-> <<>>]
  /\ fs = EmptyStorage
  /\ last = NoCall
  /\ prev = NoCall
  /\ fn_in = <<>>
  /\ fn_out = <<>>

\* a method call on the in-memory client leaves its dict and its outcome
MemCall(op, arg, eff) ==
  /\ skills' = [skills EXCEPT ![backend] = eff.skills]
  /\ prev' = last
  /\ last' = Call(op, arg, eff.out)
  /\ UNCHANGED <<backend, fs, fn_in, fn_out>>

\* a method call on the file-based client leaves the storage as it is
FsCall(op, arg, out) ==
  /\ prev' = last
  /\ last' = Call(op, arg, out)
  /\ UNCHANGED <<backend, skills, fs, fn_in, fn_out>>

HasRoom(skill) ==
  \/ Skill_name(skill) \in dict_keys(skills[backend])
  \/ Len(skills[backend]) < MaxSkills

InMemoryList ==
  /\ backend = "InMemoryClient"
  /\ MemCall("list", <<>>, InMemoryClient_list(skills[backend]))

InMemoryCreate ==
  /\ backend = "InMemoryClient"
  /\ \E skill \in MemSkills :
       /\ HasRoom(skill)
       /\ MemCall("create", skill, InMemoryClient_create(skills[backend], skill))

InMemoryDelete ==
  /\ backend = "InMemoryClient"
  /\ \E id \in SkillIds :
       MemCall("delete", id, InMemoryClient_delete(skills[backend], id))

InMemoryRetrieve ==
  /\ backend = "InMemoryClient"
  /\ \E id \in SkillIds :
       MemCall("retrieve", id, InMemoryClient_retrieve(skills[backend], id))

InMemoryEnable ==
  /\ backend = "InMemoryClient"
  /\ \E id \in ToggleIds :
       MemCall("enable", id, InMemoryClient_enable(skills[backend], id))

InMemoryDisable ==
  /\ backend = "InMemoryClient"
  /\ \E id \in ToggleIds :
       MemCall("disable", id, InMemoryClient_disable(skills[backend], id))

InMemoryLocation ==
  /\ backend = "InMemoryClient"
  /\ \E id \in ToggleIds :
       MemCall("location", id, Effect(skills[backend], BaseClient_location(id)))

SkillsList ==
  /\ backend = "Skills"
  /\ MemCall("list", <<>>, Skills_list(skills[backend]))

SkillsCreate ==
  /\ backend = "Skills"
  /\ \E skill \in MemSkills :
       /\ HasRoom(skill)
       /\ MemCall("create", skill, Skills_create(skills[backend], skill))

SkillsDelete ==
  /\ backend = "Skills"
  /\ \E id \in SkillIds :
       MemCall("delete", id, Skills_delete(skills[backend], id))

SkillsRetrieve ==
  /\ backend = "Skills"
  /\ \E id \in SkillIds :
       MemCall("retrieve", id, Skills_retrieve(skills[backend], id))

SkillsEnable ==
  /\ backend = "Skills"
  /\ \E id \in ToggleIds :
       MemCall("enable", id, Skills_enable(skills[backend], id))

SkillsDisable ==
  /\ backend = "Skills"
  /\ \E id \in ToggleIds :
       MemCall("disable", id, Skills_disable(skills[backend], id))

SkillsLocation ==
  /\ backend = "Skills"
  /\ \E id \in ToggleIds :
       MemCall("location", id, Skills_location(skills[backend], id))

FileSystemList ==
  /\ backend = "FileSystemClient"
  /\ \E out \in FileSystemClient_list(fs) : FsCall("list", <<>>, out)

FileSystemCreate ==
  /\ backend = "FileSystemClient"
  /\ \E skill \in FsSkills :
       FsCall("create", skill, FileSystemClient_create(skill))

FileSystemDelete ==
  /\ backend = "FileSystemClient"
  /\ \E id \in ToggleIds : FsCall("delete", id, FileSystemClient_delete(id))

FileSystemRetrieve ==
  /\ backend = "FileSystemClient"
  /\ \E id \in FsIds :
       \E out \in FileSystemClient_retrieve(fs, id) : FsCall("retrieve", id, out)

FileSystemEnable ==
  /\ backend = "FileSystemClient"
  /\ \E id \in ToggleIds : FsCall("enable", id, FileSystemClient_enable(id))

FileSystemDisable ==
  /\ backend = "FileSystemClient"
  /\ \E id \in ToggleIds : FsCall("disable", id, FileSystemClient_disable(id))

FileSystemLocation ==
  /\ backend = "FileSystemClient"
  /\ \E id \in ToggleIds : FsCall("location", id, BaseClient_location(id))

\* something outside the client rewrites one entry of the base directory
ExternalWrite ==
  /\ backend = "FileSystemClient"
  /\ fs.root = "dir"
  /\ \E n \in FsNames : \E e \in EntryStates(n) :
       fs' = [fs EXCEPT !.entries[n] = e]
  /\ UNCHANGED <<backend, skills, last, prev, fn_in, fn_out>>

\* something outside the client removes the base path, or puts a regular
\* file or an empty directory in its place
ExternalReplaceRoot ==
  /\ backend = "FileSystemClient"
  /\ \E kind \in {"missing", "file", "dir"} :
       fs' = Storage(kind, [n \in FsNames |-> AbsentEntry])
  /\ UNCHANGED <<backend, skills, last, prev, fn_in, fn_out>>

Next ==
  \/ InMemoryList \/ InMemoryCreate \/ InMemoryDelete \/ InMemoryRetrieve
  \/ InMemoryEnable \/ InMemoryDisable \/ InMemoryLocation
  \/ SkillsList \/ SkillsCreate \/ SkillsDelete \/ SkillsRetrieve
  \/ SkillsEnable \/ SkillsDisable \/ SkillsLocation
  \/ FileSystemList \/ FileSystemCreate \/ FileSystemDelete
  \/ FileSystemRetrieve \/ FileSystemEnable \/ FileSystemDisable
  \/ FileSystemLocation \/ ExternalWrite \/ ExternalReplaceRoot

Spec == Init /\ [][Next]_vars

----------------------------------------------------------------------------
(* parse_skill_md as a function of its argument: the argument is drawn,    *)
(* then the function is applied once                                       *)

HeaderTokens ==
  {"name: a", "name: ' a '", "name: 42", "description: d", "description: ''",
   "license: MIT", "metadata: {k: 1}", "bogus-key: x", "\n", "x", "[", "-"}

RECURSIVE SeqsUpTo(_, _)
SeqsUpTo(S, n) ==
  IF n = 0 THEN {<<>>}
  ELSE LET shorter == SeqsUpTo(S, n - 1)
       IN  shorter \cup {Append(q, x) : q \in shorter, x \in S}

HeaderBlocks == SeqsUpTo(HeaderTokens, MaxHeaderLines)

\* what stands before the header block, and what stands after it
Openings ==
  {Delimiter, <<>>, <<" ">> \o Delimiter, <<"x">> \o Delimiter,
   Delimiter \o <<"-">>}
Closings ==
  {Delimiter, <<>>, <<"-", "-">>, Delimiter \o <<" ", "x", "\n">>,
   Delimiter \o <<"x">> \o Delimiter \o <<"x">>,
   Delimiter \o <<"\n", "x", " ">> \o Delimiter \o <<"x", "\n">>}

ParseInputs ==
  {o \o h \o c : o \in Openings, h \in HeaderBlocks, c \in Closings}
  \cup {DocA, DocB, DocNoDescription}

InitParse ==
  /\ backend = "none"
  /\ skills = [b \in InMemoryBackends |-> <<>>]
  /\ fs = EmptyStorage
  /\ last = NoCall
  /\ prev = NoCall
  /\ fn_in \in ParseInputs
  /\ fn_out = <<>>

ParseSkillMd ==
  /\ fn_out = <<>>
  /\ \E out \in parse_skill_md(fn_in) : fn_out' = <<out>>
  /\ UNCHANGED <<backend, skills, fs, last, prev, fn_in>>

NextParse == ParseSkillMd

SpecParse == InitParse /\ [][NextParse]_vars

----------------------------------------------------------------------------
(* skills/scripts.py: the argument binder.  A token of the command line is *)
(* a string, that is a sequence of characters.  The signatures of the      *)
(* model hold positional-or-keyword parameters, keyword-only parameters    *)
(* and a catch-all **kwargs parameter; their annotations are int, str and  *)
(* bool, plain or as List[...].                                            *)

\* inspect.Parameter.empty, argparse.SUPPRESS, True/False, a list
Empty == PyVal("empty", <<>>)
Suppress == PyVal("SUPPRESS", <<>>)
PyBool(b) == PyVal("bool", << IF b THEN "True" ELSE "False" >>)
PyList(items) == PyVal("list", items)

\* bool(x), for the values a default can take: the class
\* inspect.Parameter.empty is an object like any other and is true
truthy(x) ==
  CASE x.t = "bool" -> x.v = <<"True">>
    [] x.t = "NoneType" -> FALSE
    [] x.t = "empty" -> TRUE
    [] x.t = "int" -> x.v # <<"0">>
    [] OTHER -> x.v # <<>>

\* inspect.Parameter, with the annotation after _unwrap_type: type is the
\* scalar type, is_list says that the annotation is List[type]
Parameter(name, kind, type, is_list, default) ==
  [name |-> name, kind |-> kind, type |-> type, is_list |-> is_list,
   default |-> default]

\* s.replace(a, b) for single characters
replace(s, a, b) == [i \in 1..Len(s) |-> IF s[i] = a THEN b ELSE s[i]]

\* s.split("=", 1) of a string that holds "="
split_eq(s) ==
  LET i == find(s, <<"=">>, 1)
  IN  << SubSeq(s, 1, i - 1), SubSeq(s, i + 1, Len(s)) >>

\* shlex.split of a string without quotes and escapes: the words between
\* the blanks
RECURSIVE shlex_split(_)
shlex_split(s) ==
  LET rest == lstrip(s)
      blank == {i \in 1..Len(rest) : rest[i] \in WS}
      end == IF blank = {} THEN Len(rest) + 1
             ELSE CHOOSE i \in blank : \A j \in blank : i <= j
  IN  IF rest = <<>> THEN <<>>
      ELSE << SubSeq(rest, 1, end - 1) >>
           \o shlex_split(SubSeq(rest, end, Len(rest)))

\* _normalize_args(args), for args a string
_normalize_args(args) == shlex_split(args)

Digits == {"0", "1", "2", "3", "4", "5", "6", "7", "8", "9"}

\* int(tok) succeeds: an optional sign and decimal digits
is_int_literal(tok) ==
  LET body == IF tok # <<>> /\ tok[1] \in {"-", "+"} THEN Tail(tok) ELSE tok
  IN  body # <<>> /\ \A i \in 1..Len(body) : body[i] \in Digits

\* int(tok): the number, written without sign "+" and leading zeros
int_of(tok) ==
  LET negative == tok[1] = "-"
      body == IF tok[1] \in {"-", "+"} THEN Tail(tok) ELSE tok
      nonzero == {i \in 1..Len(body) : body[i] # "0"}
      digits == IF nonzero = {} THEN <<"0">>
                ELSE SubSeq(body,
                            CHOOSE i \in nonzero : \A j \in nonzero : i <= j,
                            Len(body))
  IN  PyVal("int", IF negative /\ digits # <<"0">> THEN <<"-">> \o digits
                   ELSE digits)

BoolTrueWords ==
  {<<"y", "e", "s">>, <<"t", "r", "u", "e">>, <<"t">>, <<"y">>, <<"1">>}
BoolFalseWords ==
  {<<"n", "o">>, <<"f", "a", "l", "s", "e">>, <<"f">>, <<"n">>, <<"0">>}

\* the type function argparse applies to one argument string; <<>> when it
\* raises ValueError or ArgumentTypeError
convert(type, tok) ==
  CASE type = "int" -> IF is_int_literal(tok) THEN << int_of(tok) >> ELSE <<>>
    [] type = "bool" ->
         IF lower(tok) \in BoolTrueWords THEN << PyBool(TRUE) >>
         ELSE IF lower(tok) \in BoolFalseWords THEN << PyBool(FALSE) >>
         ELSE <<>>
    [] OTHER -> << Str(tok) >>

\* parser.error(...) and the help action: the message goes to stderr and
\* SystemExit is raised with the exit code
SystemExit(code, stderr) ==
  [ok |-> FALSE, exc |-> "SystemExit", msg |-> code, val |-> stderr]

\* an argparse action
Action(option_strings, dest, action, nargs, type, default) ==
  [option_strings |-> option_strings, dest |-> dest, action |-> action,
   nargs |-> nargs, type |-> type, default |-> default]

\* the -h/--help action every ArgumentParser has
HelpAction ==
  Action(<< <<"-", "h">>, <<"-", "-", "h", "e", "l", "p">> >>, <<>>, "help",
         "0", "str", Suppress)

\* _add_flag_argument(parser, cli_name, dest_name, param, type_hint, nargs):
\* the action it adds
_add_flag_argument(cli_name, dest_name, param, nargs) ==
  LET flag == <<"-", "-">> \o cli_name
  IN  IF param.type = "bool" /\ nargs = "None"
      THEN IF truthy(param.default)
           THEN Action(<< <<"-", "-", "n", "o", "-">> \o cli_name >>, dest_name,
                       "store_false", "0", "bool", PyBool(TRUE))
           ELSE Action(<< flag >>, dest_name, "store_true", "0", "bool",
                       PyBool(FALSE))
      ELSE Action(<< flag >>, dest_name, "store", nargs, param.type,
                  param.default)

\* the actions to_function_input adds for one parameter
actions_for(param) ==
  LET nargs == IF param.is_list THEN "*" ELSE "None"
      cli_name == replace(param.name, "_", "-")
  IN  IF param.kind = "POSITIONAL_OR_KEYWORD"
      THEN IF param.default = Empty
           THEN << Action(<<>>, param.name, "store", nargs, param.type,
                          PyNone) >>
           ELSE << _add_flag_argument(cli_name, param.name, param, nargs) >>
      ELSE IF param.kind = "KEYWORD_ONLY"
      THEN << _add_flag_argument(cli_name, param.name, param, nargs) >>
      ELSE <<>>

\* the parser to_function_input builds for a signature
RECURSIVE parser_actions(_)
parser_actions(sig) ==
  IF sig = <<>> THEN <<>>
  ELSE actions_for(Head(sig)) \o parser_actions(Tail(sig))

ArgumentParser(sig) == << HelpAction >> \o parser_actions(sig)

has_var_keyword(sig) == \E i \in 1..Len(sig) : sig[i].kind = "VAR_KEYWORD"

----------------------------------------------------------------------------
(* argparse.ArgumentParser.parse_known_args, as the standard library runs  *)
(* it for the parsers above.  The token "--" alone is not part of the      *)
(* command lines of the model.                                             *)

\* the positions of the actions that own the option string, or that it
\* abbreviates
exact_actions(parser, opt) ==
  {k \in 1..Len(parser) :
     \E j \in 1..Len(parser[k].option_strings) :
       parser[k].option_strings[j] = opt}

abbreviated_options(parser, prefix) ==
  {<<k, j>> \in (1..Len(parser)) \X (1..2) :
     /\ j <= Len(parser[k].option_strings)
     /\ startswith(parser[k].option_strings[j], prefix)}

\* one argument string classified: "A" an argument, "O" an option with the
\* position of its action (0 when no action owns it) and its explicit
\* argument, "ambiguous" when it abbreviates several options
Classified(pattern, action, explicit) ==
  [pattern |-> pattern, action |-> action, explicit |-> explicit]

looks_negative(arg) ==
  Len(arg) >= 2 /\ arg[1] = "-"
  /\ \A i \in 2..Len(arg) : arg[i] \in Digits

\* ArgumentParser._parse_optional(arg_string)
_parse_optional(parser, arg) ==
  IF arg = <<>> \/ arg[1] # "-" THEN Classified("A", 0, None)
  ELSE IF exact_actions(parser, arg) # {}
  THEN Classified("O", CHOOSE k \in exact_actions(parser, arg) : TRUE, None)
  ELSE IF Len(arg) = 1 THEN Classified("A", 0, None)
  ELSE IF contains(arg, <<"=">>)
          /\ exact_actions(parser, split_eq(arg)[1]) # {}
  THEN Classified("O",
                  CHOOSE k \in exact_actions(parser, split_eq(arg)[1]) : TRUE,
                  Some(split_eq(arg)[2]))
  ELSE
    LET double == arg[2] = "-"
        prefix == IF double /\ contains(arg, <<"=">>) THEN split_eq(arg)[1]
                  ELSE arg
        explicit == IF double /\ contains(arg, <<"=">>)
                    THEN Some(split_eq(arg)[2]) ELSE None
        found == IF double THEN abbreviated_options(parser, prefix)
                 ELSE {<<k, j>> \in abbreviated_options(parser, arg) : TRUE}
                      \cup {<<k, j>> \in (1..Len(parser)) \X (1..2) :
                              /\ j <= Len(parser[k].option_strings)
                              /\ parser[k].option_strings[j] = SubSeq(arg, 1, 2)}
    IN  IF Cardinality(found) > 1 THEN Classified("ambiguous", 0, None)
        ELSE IF Cardinality(found) = 1
        THEN Classified("O", (CHOOSE kj \in found : TRUE)[1],
                        IF double THEN explicit
                        ELSE IF Len(arg) > 2 THEN Some(SubSeq(arg, 3, Len(arg)))
                        ELSE None)
        ELSE IF looks_negative(arg) THEN Classified("A", 0, None)
        ELSE IF \E i \in 1..Len(arg) : arg[i] = " "
        THEN Classified("A", 0, None)
        ELSE Classified("O", 0, None)

\* F applied to the value of v, with v evaluated once: the way a Python
\* local variable holds the result of the call that was assigned to it
Once(v, F(_)) == CHOOSE r \in {F(x) : x \in {v}} : TRUE

\* the state of the scan: the next position, the namespace, the strings no
\* action took, the positional actions not yet filled, and the exit when
\* the parser gave up
Scan(i, ns, extras, positionals, exit) ==
  [i |-> i, ns |-> ns, extras |-> extras, positionals |-> positionals,
   exit |-> exit]

\* the namespace before the scan: the default of every action that has one
RECURSIVE defaults_of(_)
defaults_of(parser) ==
  IF parser = <<>> THEN <<>>
  ELSE (IF Head(parser).default = Suppress THEN <<>>
        ELSE << <<Head(parser).dest, Head(parser).default>> >>)
       \o defaults_of(Tail(parser))

positional_actions(parser) ==
  SelectSeq([k \in 1..Len(parser) |-> k],
            LAMBDA k : parser[k].option_strings = <<>>)

\* the values of the argument strings an action took; <<>> when one of
\* them is refused by the type function
converted(action, strings) ==
  IF \E j \in 1..Len(strings) : convert(action.type, strings[j]) = <<>>
  THEN <<>>
  ELSE IF action.nargs = "*"
  THEN << PyList([j \in 1..Len(strings) |-> convert(action.type, strings[j])[1]]) >>
  ELSE << convert(action.type, strings[1])[1] >>

\* consume_positionals(start_index), when n argument strings stand there:
\* the positional actions take one string each, in order
RECURSIVE consume_positionals(_, _, _, _)
consume_positionals(parser, toks, state, n) ==
  LET take(st) ==
        IF n = 0 \/ st.positionals = <<>> \/ st.exit # <<>> THEN st
        ELSE
          LET action == parser[Head(st.positionals)]
              stored(value) ==
                IF value = <<>>
                THEN [st EXCEPT
                        !.exit = << SystemExit("2", "invalid value") >>]
                ELSE consume_positionals(
                       parser, toks,
                       Scan(st.i + 1, dict_set(st.ns, action.dest, value[1]),
                            st.extras, Tail(st.positionals), <<>>),
                       n - 1)
          IN  Once(converted(action, << toks[st.i] >>), stored)
  IN  Once(state, take)

\* how many argument strings stand at positions i, i+1, ...
run_of_arguments(pat, i) ==
  LET stops == {j \in i..Len(pat) : pat[j].pattern # "A"}
  IN  IF stops = {} THEN Len(pat) - i + 1
      ELSE (CHOOSE j \in stops : \A k \in stops : j <= k) - i

\* consume_optional(start_index)
consume_optional(parser, toks, pat, state) ==
  Once(state, LAMBDA st :
  LET c == pat[st.i]
      action == parser[c.action]
      following == run_of_arguments(pat, st.i + 1)
      count == IF action.nargs = "0" THEN 0
               ELSE IF action.nargs = "None" THEN 1
               ELSE following
      strings == IF c.explicit # None THEN << c.explicit[1] >>
                 ELSE SubSeq(toks, st.i + 1, st.i + count)
      stop == IF c.explicit # None THEN st.i + 1 ELSE st.i + 1 + count
      value == converted(action, strings)
  IN  IF c.action = 0
      THEN [st EXCEPT !.extras = Append(@, toks[st.i]), !.i = st.i + 1]
      ELSE IF c.explicit # None /\ action.nargs = "0"
      THEN [st EXCEPT !.exit = << SystemExit("2", "ignored explicit argument") >>]
      ELSE IF c.explicit = None /\ action.nargs = "None" /\ following = 0
      THEN [st EXCEPT !.exit = << SystemExit("2", "expected one argument") >>]
      ELSE IF action.action = "help"
      THEN [st EXCEPT !.exit = << SystemExit("0", "usage") >>]
      ELSE IF action.action = "store_true"
      THEN [st EXCEPT !.ns = dict_set(@, action.dest, PyBool(TRUE)), !.i = stop]
      ELSE IF action.action = "store_false"
      THEN [st EXCEPT !.ns = dict_set(@, action.dest, PyBool(FALSE)), !.i = stop]
      ELSE IF value = <<>>
      THEN [st EXCEPT !.exit = << SystemExit("2", "invalid value") >>]
      ELSE [st EXCEPT !.ns = dict_set(@, action.dest, value[1]), !.i = stop])

\* the loop of _parse_known_args from the state st on
RECURSIVE scan_from(_, _, _, _)
scan_from(parser, toks, pat, state) ==
  Once(state, LAMBDA st :
  LET options == {j \in st.i..Len(pat) : pat[j].pattern = "O"}
      next_option == CHOOSE j \in options : \A k \in options : j <= k
      rest(filled) ==
        IF filled.exit # <<>> THEN filled
        ELSE [filled EXCEPT
                !.extras = @ \o SubSeq(toks, filled.i, Len(toks)),
                !.i = Len(toks) + 1]
      before_option(filled) ==
        IF filled.exit # <<>> THEN filled
        ELSE IF filled.i > st.i
        THEN scan_from(parser, toks, pat, filled)
        ELSE scan_from(
               parser, toks, pat,
               consume_optional(
                 parser, toks, pat,
                 [st EXCEPT
                    !.extras = @ \o SubSeq(toks, st.i, next_option - 1),
                    !.i = next_option]))
  IN  IF st.exit # <<>> THEN st
      ELSE IF options = {}
      THEN Once(consume_positionals(parser, toks, st, Len(toks) - st.i + 1),
                rest)
      ELSE IF st.i # next_option
      THEN Once(consume_positionals(parser, toks, st, next_option - st.i),
                before_option)
      ELSE scan_from(parser, toks, pat,
                     consume_optional(parser, toks, pat, st)))

\* what parse_known_args gives: a namespace and the strings left over, or
\* the exit of parser.error and of the help action
Parsed(ns, extras) == [ok |-> TRUE, exc |-> "", msg |-> "",
                        val |-> [ns |-> ns, extras |-> extras]]

\* parser.parse_known_args(args)
parse_known_args(parser, toks) ==
  LET scanned(pat) ==
        LET result(end) ==
              IF end.exit # <<>> THEN end.exit[1]
              ELSE IF end.positionals # <<>>
              THEN SystemExit("2", "the following arguments are required")
              ELSE Parsed(end.ns, end.extras)
        IN  IF \E i \in 1..Len(pat) : pat[i].pattern = "ambiguous"
            THEN SystemExit("2", "ambiguous option")
            ELSE Once(scan_from(parser, toks, pat,
                                Scan(1, defaults_of(parser), <<>>,
                                     positional_actions(parser), <<>>)),
                      result)
  IN  Once([i \in 1..Len(toks) |-> _parse_optional(parser, toks[i])], scanned)

\* parser.parse_args(args)
parse_args(parser, toks) ==
  Once(parse_known_args(parser, toks), LAMBDA known :
    IF known.ok /\ known.val.extras # <<>>
    THEN SystemExit("2", "unrecognized arguments")
    ELSE known)

----------------------------------------------------------------------------
(* skills/scripts.py: _parse_unknown_args and to_function_input *)

is_key(tok) == startswith(tok, <<"-", "-">>)

\* the strings after position i up to the next "--key"
values_after(unknown, i) ==
  LET keys == {j \in (i + 1)..Len(unknown) : is_key(unknown[j])}
      end == IF keys = {} THEN Len(unknown) + 1
             ELSE CHOOSE j \in keys : \A k \in keys : j <= k
  IN  SubSeq(unknown, i + 1, end - 1)

\* val of one entry: True, the one value, or the list of the values
entry_value(values) ==
  IF values = <<>> THEN PyBool(TRUE)
  ELSE IF Len(values) = 1 THEN Str(values[1])
  ELSE PyList([j \in 1..Len(values) |-> Str(values[j])])

\* _parse_unknown_args(unknown), from position i on with res built so far
RECURSIVE _parse_unknown_args(_, _, _)
_parse_unknown_args(unknown, i, res) ==
  IF i > Len(unknown) THEN res
  ELSE IF is_key(unknown[i])
  THEN LET key == replace(SubSeq(unknown[i], 3, Len(unknown[i])), "-", "_")
           values == values_after(unknown, i)
       IN  _parse_unknown_args(unknown, i + 1 + Len(values),
                               dict_set(res, key, entry_value(values)))
  ELSE _parse_unknown_args(unknown, i + 1, res)

\* parsed_dict.update(kwargs_extra)
RECURSIVE dict_update(_, _)
dict_update(d, other) ==
  IF other = <<>> THEN d
  ELSE dict_update(dict_set(d, Head(other)[1], Head(other)[2]), Tail(other))

\* the parameters of a kind, in the order of the signature
params_of(sig, kind) == SelectSeq(sig, LAMBDA p : p.kind = kind)

\* what to_function_input returns: bound.args and bound.kwargs
FunctionInput(args, kwargs) == [args |-> args, kwargs |-> kwargs]

\* sig.bind(*pos_args, **kw_args), apply_defaults(), bound.args and
\* bound.kwargs, for parsed_dict after the merge.  The positional
\* parameters found in the dict are handed over positionally; a keyword
\* that names no parameter goes to the catch-all parameter or is a
\* TypeError; bound.args holds the positional-or-keyword parameters and
\* bound.kwargs the keyword-only ones followed by the catch-all entries.
bind(sig, parsed_dict) ==
  LET positional == params_of(sig, "POSITIONAL_OR_KEYWORD")
      keyword_only == params_of(sig, "KEYWORD_ONLY")
      declared == {sig[i].name : i \in 1..Len(sig)}
      keys == dict_keys(parsed_dict)
      value(p) == IF p.name \in keys THEN dict_get(parsed_dict, p.name)
                  ELSE p.default
      others == SelectSeq(parsed_dict,
                          LAMBDA kv : \A i \in 1..Len(sig) :
                                        sig[i].kind = "VAR_KEYWORD"
                                        \/ sig[i].name # kv[1])
  IN  IF \E i \in 1..Len(sig) :
           sig[i].kind # "VAR_KEYWORD" /\ sig[i].name \notin keys
           /\ sig[i].default = Empty
      THEN Raise("TypeError", "missing a required argument")
      ELSE IF others # <<>> /\ ~has_var_keyword(sig)
      THEN Raise("TypeError", "got an unexpected keyword argument")
      ELSE Return(FunctionInput(
             [i \in 1..Len(positional) |-> value(positional[i])],
             [i \in 1..Len(keyword_only) |->
                <<keyword_only[i].name, value(keyword_only[i])>>]
             \o others))

\* FunctionScript.to_function_input(args)
to_function_input(sig, args) ==
  LET parsed_of(known) ==
        IF ~known.ok THEN known
        ELSE Once(dict_update(known.val.ns,
                              IF has_var_keyword(sig)
                              THEN _parse_unknown_args(known.val.extras, 1,
                                                       <<>>)
                              ELSE <<>>),
                  LAMBDA parsed_dict : bind(sig, parsed_dict))
      parse(parser, toks) ==
        IF has_var_keyword(sig) THEN parse_known_args(parser, toks)
        ELSE parse_args(parser, toks)
      parse_words(toks) == Once(ArgumentParser(sig),
                                LAMBDA parser : parse(parser, toks))
  IN  Once(Once(_normalize_args(args), parse_words), parsed_of)

----------------------------------------------------------------------------
(* The binder as a function of a signature and an argument string: both     *)
(* are drawn, and to_function_input is applied once.                        *)

\* def f(x: int, verbose: bool = False)
SigF ==
  << Parameter(<<"x">>, "POSITIONAL_OR_KEYWORD", "int", FALSE, Empty),
     Parameter(<<"v", "e", "r", "b", "o", "s", "e">>, "POSITIONAL_OR_KEYWORD", "bool", FALSE,
               PyBool(FALSE)) >>

\* def g(*, tag: str = None, **rest)
SigG ==
  << Parameter(<<"t", "a", "g">>, "KEYWORD_ONLY", "str", FALSE, PyNone),
     Parameter(<<"r", "e", "s", "t">>, "VAR_KEYWORD", "str", FALSE, Empty) >>

\* def h(x: int, *, on: bool = True)
SigH ==
  << Parameter(<<"x">>, "POSITIONAL_OR_KEYWORD", "int", FALSE, Empty),
     Parameter(<<"o", "n">>, "KEYWORD_ONLY", "bool", FALSE, PyBool(TRUE)) >>

\* def k(*, force: bool)
SigK ==
  << Parameter(<<"f", "o", "r", "c", "e">>, "KEYWORD_ONLY", "bool", FALSE, Empty) >>

\* def k2(x: int, *, force: bool, **rest)
SigK2 ==
  << Parameter(<<"x">>, "POSITIONAL_OR_KEYWORD", "int", FALSE, Empty),
     Parameter(<<"f", "o", "r", "c", "e">>, "KEYWORD_ONLY", "bool", FALSE, Empty),
     Parameter(<<"r", "e", "s", "t">>, "VAR_KEYWORD", "str", FALSE, Empty) >>

\* def m(*, flag: Optional[bool] = None, tags: List[str] = None, n: int = 3)
SigM ==
  << Parameter(<<"f", "l", "a", "g">>, "KEYWORD_ONLY", "bool", FALSE, PyNone),
     Parameter(<<"t", "a", "g", "s">>, "KEYWORD_ONLY", "str", TRUE, PyNone),
     Parameter(<<"n">>, "KEYWORD_ONLY", "int", FALSE, PyInt("3")) >>

\* def r(*, tag: str)
SigR ==
  << Parameter(<<"t", "a", "g">>, "KEYWORD_ONLY", "str", FALSE, Empty) >>

\* the argument strings tried with each signature
TokensF ==
  {<<"4", "2">>,
   <<"-", "5">>,
   <<"0", "7">>,
   <<"f", "o", "o">>,
   <<"-", "-", "v", "e", "r", "b", "o", "s", "e">>,
   <<"-", "-", "v", "e", "r", "b">>,
   <<"-", "-", "b", "o", "g", "u", "s">>,
   <<"-", "-", "h", "e", "l", "p">>}
TokensG ==
  {<<"f", "o", "o">>,
   <<"b", "a", "r">>,
   <<"-", "-", "t", "a", "g">>,
   <<"-", "-", "t", "a">>,
   <<"-", "-", "e", "x", "t", "r", "a">>,
   <<"-", "-", "a", "-", "b">>,
   <<"-", "-", "t", "a", "g", "=", "f", "o", "o">>,
   <<"-", "-", "k", "=", "v">>}
TokensH ==
  {<<"1">>,
   <<"-", "-", "o", "n">>,
   <<"-", "-", "n", "o", "-", "o", "n">>,
   <<"-", "-", "n", "o">>}
TokensK ==
  {<<"-", "-", "f", "o", "r", "c", "e">>,
   <<"-", "-", "n", "o", "-", "f", "o", "r", "c", "e">>,
   <<"f", "o", "o">>}
TokensK2 ==
  {<<"5">>,
   <<"7">>,
   <<"-", "-", "f", "o", "r", "c", "e">>,
   <<"-", "-", "n", "o", "-", "f", "o", "r", "c", "e">>,
   <<"-", "-", "x">>,
   <<"-", "-", "k">>}
TokensR ==
  {<<"f", "o", "o">>,
   <<"-", "-", "t", "a", "g">>,
   <<"-", "-", "t", "a">>,
   <<"-", "-", "t", "a", "g", "=", "f", "o", "o">>}
TokensM ==
  {<<"-", "-", "f", "l", "a", "g">>,
   <<"-", "-", "t", "a", "g", "s">>,
   <<"a">>,
   <<"b">>,
   <<"-", "-", "n">>,
   <<"5">>,
   <<"-", "5">>,
   <<"-", "-", "n", "=", "5">>}

\* " ".join(words)
RECURSIVE join(_)
join(words) ==
  IF words = <<>> THEN <<>>
  ELSE IF Len(words) = 1 THEN words[1]
  ELSE words[1] \o <<" ">> \o join(Tail(words))

\* the example of a catch-all call: --tag foo --extra bar baz
TagExtraArgs ==
  << <<"-", "-", "t", "a", "g">>, <<"f", "o", "o">>, <<"-", "-", "e", "x", "t", "r", "a">>, <<"b", "a", "r">>, <<"b", "a", "z">> >>

BindInput(sig, args) == [fn |-> "to_function_input", sig |-> sig, args |-> args]

BindInputsOf(sig, tokens) ==
  {BindInput(sig, join(words)) : words \in SeqsUpTo(tokens, MaxTokens)}

BindInputs ==
  BindInputsOf(SigF, TokensF) \cup BindInputsOf(SigG, TokensG)
  \cup BindInputsOf(SigH, TokensH) \cup BindInputsOf(SigK, TokensK)
  \cup BindInputsOf(SigK2, TokensK2) \cup BindInputsOf(SigM, TokensM)
  \cup BindInputsOf(SigR, TokensR)
  \cup {BindInput(SigG, join(TagExtraArgs)),
        BindInput(SigG, join(SubSeq(TagExtraArgs, 3, 5)
                             \o SubSeq(TagExtraArgs, 1, 2)))}

InitBind ==
  /\ backend = "none"
  /\ skills = [b \in InMemoryBackends |-> <<>>]
  /\ fs = EmptyStorage
  /\ last = NoCall
  /\ prev = NoCall
  /\ fn_in \in BindInputs
  /\ fn_out = <<>>

ToFunctionInput ==
  /\ fn_out = <<>>
  /\ fn_out' = << to_function_input(fn_in.sig, fn_in.args) >>
  /\ UNCHANGED <<backend, skills, fs, last, prev, fn_in>>

NextBind == ToFunctionInput

SpecBind == InitBind /\ [][NextBind]_vars

----------------------------------------------------------------------------
(* The validator as functions of their arguments: the arguments are drawn,  *)
(* then the function named in them is applied once                         *)

ValidateInput(fn, name, skill_dir, metadata, node) ==
  [fn |-> fn, name |-> name, skill_dir |-> skill_dir, metadata |-> metadata,
   node |-> node]

NameChars == {"a", "A", "-", " ", "_", "FW_A"}

ValidSkill1 ==
  <<"v", "a", "l", "i", "d", "-", "s", "k", "i", "l", "l", "-", "1">>

\* the names: every short string, the example of the documentation, names
\* at and beyond the length limit, and values that are no strings
NameValues ==
  {Str(s) : s \in SeqsUpTo(NameChars, MaxNameLen)}
  \cup {Str(ValidSkill1),
        Str(repeat("a", MAX_SKILL_NAME_LENGTH)),
        Str(repeat("a", MAX_SKILL_NAME_LENGTH + 1)),
        Str(repeat("LIG_ffi", 21)),
        Str(repeat("LIG_ffi", 22)),
        Str(repeat("LIG_ffi", MAX_SKILL_NAME_LENGTH)),
        PyInt("42"), PyNone}

SkillDirNames == {None, Some(<<"a">>), Some(<<"FW_a">>), Some(ValidSkill1)}

NameInputs ==
  {ValidateInput("validate_name", n, d, <<>>, AbsentEntry) :
     n \in NameValues, d \in SkillDirNames}

\* a dict holding the given keys, each with the value "x"
RECURSIVE dict_of_keys(_, _)
dict_of_keys(order, keys) ==
  IF order = <<>> THEN <<>>
  ELSE (IF Head(order) \in keys THEN << <<Head(order), Str(<<"x">>)>> >>
        ELSE <<>>)
       \o dict_of_keys(Tail(order), keys)

FieldsInputs ==
  {ValidateInput("validate_metadata_fields", PyNone, None,
                 dict_of_keys(KeyOrder, keys), AbsentEntry) :
     keys \in SUBSET {KeyOrder[i] : i \in 1..Len(KeyOrder)}}

\* an entry of a metadata dict, or nothing when the key is left out
item(key, value) == IF value = None THEN <<>> ELSE << <<key, value[1]>> >>

MetadataNames ==
  {None, Some(Str(<<"a">>)), Some(Str(<<"A">>)), Some(Str(<<>>)),
   Some(Str(<<"-", "a">>)), Some(PyInt("42"))}
MetadataDescriptions ==
  {None, Some(Str(<<"d">>)), Some(Str(<<" ">>)), Some(PyNone),
   Some(Str(repeat("d", MAX_DESCRIPTION_LENGTH + 1))),
   Some(Str(repeat(" ", MAX_DESCRIPTION_LENGTH + 1)))}
MetadataCompatibilities ==
  {None, Some(Str(<<"c">>)), Some(PyInt("7")),
   Some(Str(repeat("c", MAX_COMPATIBILITY_LENGTH + 1)))}
MetadataExtras == {<<>>, <<"bogus-key">>, <<"zzz-key", "bogus-key">>}

MetadataInputs ==
  {ValidateInput("validate_metadata", PyNone, d,
                 dict_of_keys(e, {e[i] : i \in 1..Len(e)})
                 \o item("name", n) \o item("description", ds)
                 \o item("compatibility", c),
                 AbsentEntry) :
     n \in MetadataNames, ds \in MetadataDescriptions,
     c \in MetadataCompatibilities, e \in MetadataExtras,
     d \in {None, Some(<<"a">>)}}

\* the header documents on disk: the headers of at most MaxHeaderLines
\* lines, and fuller ones
DocExtraKey ==
  Delimiter \o <<"name: a", "description: d", "bogus-key: x">> \o Delimiter
DocBadCompatibility ==
  Delimiter \o <<"name: A", "description: d", "compatibility: 7">>
  \o Delimiter
ValidateDocs ==
  {Delimiter \o h \o Delimiter \o <<"x">> : h \in HeaderBlocks}
  \cup {DocA, DocB, DocNoDescription, DocExtraKey, DocBadCompatibility,
        <<"x">>, Delimiter \o <<"name: a">>}

ValidateNodes ==
  {AbsentEntry, FileEntry,
   SkillDir(NoFile, NoFile, NoSub, NoSub, NoSub),
   SkillDir(DirAsFile, TextFile(DocA), NoSub, NoSub, NoSub),
   SkillDir(Undecodable, TextFile(DocA), NoSub, NoSub, NoSub),
   SkillDir(NoFile, TextFile(DocA), NoSub, NoSub, NoSub)}
  \cup {SkillDir(TextFile(doc), NoFile, NoSub, NoSub, NoSub) :
          doc \in ValidateDocs}

DirectoryInputs ==
  {ValidateInput("validate", PyNone, Some(d), <<>>, node) :
     d \in {<<"a">>, <<"b">>}, node \in ValidateNodes}

InitValidate ==
  /\ backend = "none"
  /\ skills = [b \in InMemoryBackends |-> <<>>]
  /\ fs = EmptyStorage
  /\ last = NoCall
  /\ prev = NoCall
  /\ fn_in \in NameInputs \cup FieldsInputs \cup MetadataInputs
               \cup DirectoryInputs
  /\ fn_out = <<>>

ValidateName ==
  /\ fn_out = <<>>
  /\ fn_in.fn = "validate_name"
  /\ fn_out' = << Return(validate_name(fn_in.name, fn_in.skill_dir)) >>
  /\ UNCHANGED <<backend, skills, fs, last, prev, fn_in>>

ValidateMetadataFields ==
  /\ fn_out = <<>>
  /\ fn_in.fn = "validate_metadata_fields"
  /\ fn_out' = << Return(validate_metadata_fields(fn_in.metadata)) >>
  /\ UNCHANGED <<backend, skills, fs, last, prev, fn_in>>

ValidateMetadata ==
  /\ fn_out = <<>>
  /\ fn_in.fn = "validate_metadata"
  /\ fn_out' = << Return(validate_metadata(fn_in.metadata, fn_in.skill_dir)) >>
  /\ UNCHANGED <<backend, skills, fs, last, prev, fn_in>>

Validate ==
  /\ fn_out = <<>>
  /\ fn_in.fn = "validate"
  /\ \E out \in validate(fn_in.skill_dir[1], fn_in.node) : fn_out' = <<out>>
  /\ UNCHANGED <<backend, skills, fs, last, prev, fn_in>>

NextValidate ==
  \/ ValidateName
  \/ ValidateMetadataFields
  \/ ValidateMetadata
  \/ Validate

SpecValidate == InitValidate /\ [][NextValidate]_vars

----------------------------------------------------------------------------
(* tools/skill_tool.py: the dispatchers SkillTool and SecureBashTool.  A    *)
(* path is a sequence of tokens: "/", "." and the words between them, cut   *)
(* so that every prefix, suffix and substring the code tests for falls on   *)
(* token boundaries ("myscripts/x" is "my", "scripts", "/", "x").  A key    *)
(* absent from args and the empty string take the same branches (not x)    *)
(* and are both the empty sequence.                                         *)

Slash == <<"/">>

\* s.split(p)[-1]: what follows the last occurrence of p, s itself if none
RECURSIVE split_last(_, _)
split_last(s, p) ==
  LET at == find(s, p, 1)
  IN  IF at = 0 THEN s
      ELSE split_last(SubSeq(s, at + Len(p), Len(s)), p)

\* s.split("/", 1)
split_once(s) ==
  LET at == find(s, Slash, 1)
  IN  IF at = 0 THEN << s >>
      ELSE << SubSeq(s, 1, at - 1), SubSeq(s, at + 1, Len(s)) >>

\* s.rstrip("/")
rstrip_slash(s) ==
  LET kept == {i \in 1..Len(s) : s[i] # "/"}
  IN  IF kept = {} THEN <<>>
      ELSE SubSeq(s, 1, CHOOSE i \in kept : \A j \in kept : j <= i)

\* dict.get(key): None or the value
get(d, k) == IF k \in dict_keys(d) THEN Some(dict_get(d, k)) ELSE None

\* a script of Resources.scripts: raw source text, as the file loader
\* stores it, or a FunctionScript around a Python callable
RawScript(text) == [type |-> "str", src |-> text, func |-> <<>>]
FunctionScript(func) ==
  [type |-> "FunctionScript", src |-> <<"def">>, func |-> << func >>]

\* a callable with required parameters params, which returns the value of
\* its parameter "x" or a constant, raises an Exception or calls sys.exit
Callable(params, does, result) ==
  [params |-> params, does |-> does, result |-> result]

\* func(**kwargs)
call(func, kwargs) ==
  IF dict_keys(kwargs) # func.params
  THEN Raise("TypeError", "arguments")
  ELSE IF func.does = "raise" THEN Raise("ValueError", "boom")
  ELSE IF func.does = "exit" THEN Raise("SystemExit", "1")
  ELSE IF func.does = "echo" THEN Return(dict_get(kwargs, "x"))
  ELSE Return(func.result)

\* exceptions that "except Exception" catches: all but the BaseException
\* subclasses outside Exception
caught(outcome) == ~outcome.ok /\ outcome.exc # "SystemExit"

\* types.FunctionCall and types.FunctionResponse of google.genai
FunctionCall(name, args) == [id |-> None, name |-> name, args |-> args]
FunctionResponse(id, name, response) ==
  [id |-> id, name |-> name, response |-> response]
FunctionResponseFields ==
  {"will_continue", "scheduling", "parts", "id", "name", "response"}

\* response.<field> of a FunctionResponse
attribute(response, field) ==
  IF field \notin FunctionResponseFields
  THEN Raise("AttributeError", field)
  ELSE IF field \in DOMAIN response THEN Return(response[field])
  ELSE Return(None)

_execute_skill_script(skill, function_call) ==
  LET script_id == function_call.name
      script == get(skill.resources.scripts, script_id)
  IN  IF script = None THEN Raise("ValueError", "not found")
      ELSE IF script[1].type # "FunctionScript"
      THEN Raise("ValueError", "not supported")
      ELSE LET result == call(script[1].func[1], function_call.args)
           IN  IF ~result.ok THEN result
               ELSE Return(FunctionResponse(function_call.id,
                                            function_call.name,
                                            << <<"result", result.val>> >>))

\* the payload {"error": ...}; the message is named by its first words
Error(message) == << <<"error", message>> >>

\* script.src where script is what get_script returned and is truthy
script_src(script) ==
  IF script.type = "str" THEN Raise("AttributeError", "src")
  ELSE Return(script.src)

SecureBashTool_parse_skill_path(_skills, given) ==
  LET path == IF startswith(given, <<".", "/">>)
              THEN SubSeq(given, 3, Len(given)) ELSE given
      parts == split_once(path)
      skill_name == parts[1]
  IN  IF skill_name \notin dict_keys(_skills) THEN None
      ELSE IF Len(parts) = 2 THEN Some(<<skill_name, parts[2]>>)
      ELSE Some(<<skill_name, <<>> >>)

Categories == << <<"references">>, <<"assets">>, <<"scripts">> >>

\* the first category the predicate picks, None if it picks none
first_category(picks(_)) ==
  LET found == {i \in 1..Len(Categories) : picks(Categories[i])}
  IN  IF found = {} THEN None
      ELSE Some(Categories[CHOOSE i \in found : \A j \in found : i <= j])

\* the content of a file of a category: None, Some(text) or an exception
category_content(skill, category, relative_path) ==
  IF category = <<"references">>
  THEN Return(get(skill.resources.references, relative_path))
  ELSE IF category = <<"assets">>
  THEN Return(get(skill.resources.assets, relative_path))
  ELSE LET script == get(skill.resources.scripts, relative_path)
       IN  IF script = None \/ (script[1].type = "str" /\ script[1].src = <<>>)
           THEN Return(None)
           ELSE LET src == script_src(script[1])
                IN  IF src.ok THEN Return(Some(src.val)) ELSE src

SecureBashTool_view_file(_skills, skill_name, file_path) ==
  IF skill_name \notin dict_keys(_skills) THEN Return(Error("Skill not found"))
  ELSE IF file_path = <<>> THEN Return(Error("file_path is required"))
  ELSE
    LET skill == dict_get(_skills, skill_name)
        found_category ==
          first_category(LAMBDA c : startswith(file_path, c \o Slash))
        content ==
          IF file_path = <<"SKILL.md">> THEN Return(Some(skill.instructions))
          ELSE category_content(skill, found_category[1],
                                SubSeq(file_path, Len(found_category[1]) + 2,
                                       Len(file_path)))
    IN  IF file_path # <<"SKILL.md">> /\ found_category = None
        THEN Return(Error("Invalid file_path"))
        ELSE IF ~content.ok THEN content
        ELSE IF content.val = None THEN Return(Error("File not found"))
        ELSE Return(<< <<"output", content.val[1]>> >>)

\* "\n".join(prefix + f for f in the keys of d)
RECURSIVE listing(_, _)
listing(prefix, d) ==
  IF d = <<>> THEN <<>>
  ELSE IF Len(d) = 1 THEN prefix \o d[1][1]
  ELSE prefix \o d[1][1] \o <<"\n">> \o listing(prefix, Tail(d))

SecureBashTool_list_files(_skills, skill_name, file_path) ==
  IF skill_name \notin dict_keys(_skills) THEN Return(Error("Skill not found"))
  ELSE
    LET skill == dict_get(_skills, skill_name)
        clean_path == rstrip_slash(file_path)
    IN  IF file_path = <<>> \/ file_path = <<".">>
        THEN Return(<< <<"output", <<"SKILL.md", "\n", "references", "/", "\n",
                                     "assets", "/", "\n", "scripts", "/">> >> >>)
        ELSE IF clean_path = <<"references">>
        THEN Return(<< <<"output", listing(<<"references", "/">>,
                                           skill.resources.references)>> >>)
        ELSE IF clean_path = <<"assets">>
        THEN Return(<< <<"output", listing(<<"assets", "/">>,
                                           skill.resources.assets)>> >>)
        ELSE IF clean_path = <<"scripts">>
        THEN Return(<< <<"output", listing(<<"scripts", "/">>,
                                           skill.resources.scripts)>> >>)
        ELSE Return(Error("Invalid directory"))

\* the key SecureBashTool._run_script looks the script up under
SecureBashTool_script_name(file_path) ==
  IF startswith(file_path, <<"scripts", "/">>)
  THEN SubSeq(file_path, 3, Len(file_path))
  ELSE file_path

SecureBashTool_run_script(_skills, skill_name, file_path, script_args) ==
  IF file_path = <<>> THEN Return(Error("file_path is required"))
  ELSE LET script_name == SecureBashTool_script_name(file_path)
           response ==
             _execute_skill_script(dict_get(_skills, skill_name),
                                   FunctionCall(script_name, script_args))
       IN  IF response.ok
           THEN Return(<< <<"output", response.val.response>> >>)
           ELSE IF caught(response) THEN Return(Error("Error running script"))
           ELSE response

SecureBashTool_run_async(_skills, args) ==
  LET command == args.command
      path == args.path
      script_args == args.args
      skill_path_res == SecureBashTool_parse_skill_path(_skills, path)
      skill_name == skill_path_res[1][1]
      inner_path == skill_path_res[1][2]
      done ==
        IF skill_path_res = None
        THEN Return(Error("Skill not found or invalid path"))
        ELSE IF command = "cat"
        THEN SecureBashTool_view_file(_skills, skill_name, inner_path)
        ELSE IF command = "ls"
        THEN SecureBashTool_list_files(_skills, skill_name, inner_path)
        ELSE IF ~startswith(inner_path, <<"scripts", "/">>)
        THEN Return(Error("Path for 'sh' command must start with 'scripts/'"))
        ELSE SecureBashTool_run_script(_skills, skill_name, inner_path,
                                       script_args)
  IN  IF command = "" THEN Return(Error("command is required"))
      ELSE IF path = <<>> THEN Return(Error("path is required"))
      ELSE IF command \notin {"ls", "cat", "sh"}
      THEN Return(Error("Invalid command"))
      ELSE IF caught(done) THEN Return(Error("Error running bash command"))
      ELSE done

\* list(d.keys())
keys_list(d) == [i \in 1..Len(d) |-> d[i][1]]

SkillTool_view_file(skill, skill_name, file_path) ==
  IF file_path = <<>> THEN Return(Error("file_path is required"))
  ELSE
    LET found_category ==
          first_category(LAMBDA c : contains(file_path, c \o Slash))
        content ==
          IF endswith(file_path, <<"SKILL.md">>)
          THEN Return(Some(skill.instructions))
          ELSE category_content(skill, found_category[1],
                                split_last(file_path,
                                           found_category[1] \o Slash))
    IN  IF ~endswith(file_path, <<"SKILL.md">>) /\ found_category = None
        THEN Return(Error("Invalid file_path"))
        ELSE IF ~content.ok THEN content
        ELSE IF content.val = None THEN Return(Error("File not found"))
        ELSE Return(<< <<"skill_name", skill_name>>, <<"file_path", file_path>>,
                       <<"content", content.val[1]>> >>)

SkillTool_list_files(skill, skill_name, file_path) ==
  LET clean_path == rstrip_slash(file_path)
      target_dir ==
        first_category(LAMBDA d : clean_path = d \/ endswith(clean_path, Slash \o d))
      files ==
        IF target_dir[1] = <<"references">>
        THEN keys_list(skill.resources.references)
        ELSE IF target_dir[1] = <<"assets">>
        THEN keys_list(skill.resources.assets)
        ELSE keys_list(skill.resources.scripts)
  IN  IF file_path = <<>> \/ file_path = <<".">>
      THEN Return(<< <<"skill_name", skill_name>>,
                     <<"files", << <<"SKILL.md">> >> >>,
                     <<"directories", Categories>> >>)
      ELSE IF target_dir = None THEN Return(Error("Invalid directory"))
      ELSE Return(<< <<"skill_name", skill_name>>,
                     <<"directory", target_dir[1]>>,
                     <<"files", files>> >>)

\* the key the run_script action of SkillTool looks the script up under
SkillTool_script_name(file_path) ==
  IF contains(file_path, <<"scripts", "/">>)
  THEN split_last(file_path, <<"scripts", "/">>)
  ELSE file_path

SkillTool_run_script(_skills, skill_name, file_path, script_args) ==
  IF file_path = <<>> THEN Return(Error("file_path is required"))
  ELSE LET script_name == SkillTool_script_name(file_path)
           response ==
             _execute_skill_script(dict_get(_skills, skill_name),
                                   FunctionCall(script_name, script_args))
           content == attribute(response.val, "content")
       IN  IF response.ok /\ content.ok THEN content
           ELSE IF response.ok
           THEN Return(Error("Error running script"))
           ELSE IF caught(response) THEN Return(Error("Error running script"))
           ELSE response

ValidActions == {"view_file", "list_files", "run_script"}

SkillTool_run_async(_skills, args) ==
  LET action == args.action
      skill_name == args.skill_name
      file_path == args.file_path
      skill == dict_get(_skills, skill_name)
  IN  IF action \notin ValidActions THEN Return(Error("Unknown action"))
      ELSE IF skill_name = <<>> THEN Return(Error("skill_name is required"))
      ELSE IF skill_name \notin dict_keys(_skills)
      THEN Return(Error("Failed to retrieve skill"))
      ELSE IF action = "view_file"
      THEN SkillTool_view_file(skill, skill_name, file_path)
      ELSE IF action = "list_files"
      THEN SkillTool_list_files(skill, skill_name, file_path)
      ELSE SkillTool_run_script(_skills, skill_name, file_path, args.args)

----------------------------------------------------------------------------
(* The dispatchers as functions of their arguments: a tool holding one      *)
(* skill is constructed, the arguments are drawn, and run_async is applied  *)
(* once.                                                                    *)

\* the scripts of the skill: a callable f(x) that returns x, raw source
\* text, a callable that raises, a callable that calls sys.exit, and two
\* callables without parameters under the keys a/scripts/b.py and b.py
ToolScripts ==
  << << <<"run.py">>, FunctionScript(Callable({"x"}, "echo", <<>>)) >>,
     << <<"raw.py">>, RawScript(<<"print">>) >>,
     << <<"boom.py">>, FunctionScript(Callable({}, "raise", <<>>)) >>,
     << <<"exit.py">>, FunctionScript(Callable({}, "exit", <<>>)) >>,
     << <<"a", "/", "scripts", "/", "b.py">>,
        FunctionScript(Callable({}, "return", <<"nested">>)) >>,
     << <<"b.py">>, FunctionScript(Callable({}, "return", <<"flat">>)) >> >>

ToolSkill ==
  Skill(Frontmatter(<<"s">>, <<"d">>, None, None, None, <<>>), <<"body">>,
        Resources(<< << <<"r.md">>, <<"ref">> >> >>,
                  << << <<"t.txt">>, <<"asset">> >> >>,
                  ToolScripts))

\* self._skills = {skill.name: skill for skill in skills}
ToolSkills == << <<Skill_name(ToolSkill), ToolSkill>> >>

\* the paths inside a skill handed to the tools
InnerPaths ==
  {<<>>, <<".">>, <<"x">>, <<"SKILL.md">>, <<"docs", "/", "SKILL.md">>,
   <<"references">>, <<"assets", "/">>, <<"scripts">>,
   <<"references", "/", "r.md">>, <<"assets", "/", "t.txt">>,
   <<"assets", "/", "none">>,
   <<"run.py">>, <<"scripts", "/", "run.py">>, <<"scripts", "/", "raw.py">>,
   <<"scripts", "/", "boom.py">>, <<"scripts", "/", "exit.py">>,
   <<"scripts", "/", "none.py">>, <<"scripts", "/", "b.py">>,
   <<"scripts", "/", "a", "/", "scripts", "/", "b.py">>,
   <<"my", "scripts", "/", "run.py">>}

\* the paths handed to SecureBashTool, which begin with the skill's name
BashPaths ==
  {<<"s", "/">> \o p : p \in InnerPaths}
  \cup {<<".", "/", "s", "/">> \o p : p \in InnerPaths}
  \cup {<<>>, <<"s">>, <<"t", "/", "SKILL.md">>}

\* the args handed to the script: none, {"x": "1"} and {"y": "1"}
ScriptArgs == {<<>>, << <<"x", <<"1">>>> >>, << <<"y", <<"1">>>> >>}

ToolInput(tool, action, skill_name, file_path, args) ==
  [tool |-> tool, action |-> action, command |-> action,
   skill_name |-> skill_name, file_path |-> file_path, path |-> file_path,
   args |-> args]

ToolInputs ==
  {ToolInput("SkillTool", action, skill_name, file_path, args) :
     action \in ValidActions \cup {"bogus", ""},
     skill_name \in {<<"s">>, <<"t">>, <<>>},
     file_path \in InnerPaths, args \in ScriptArgs}
  \cup {ToolInput("SecureBashTool", command, <<>>, path, args) :
          command \in {"ls", "cat", "sh", "rm", ""},
          path \in BashPaths, args \in ScriptArgs}

InitTool ==
  /\ backend = "none"
  /\ skills = [b \in InMemoryBackends |-> <<>>]
  /\ fs = EmptyStorage
  /\ last = NoCall
  /\ prev = NoCall
  /\ fn_in \in ToolInputs
  /\ fn_out = <<>>

SkillToolRunAsync ==
  /\ fn_out = <<>>
  /\ fn_in.tool = "SkillTool"
  /\ fn_out' = << SkillTool_run_async(ToolSkills, fn_in) >>
  /\ UNCHANGED <<backend, skills, fs, last, prev, fn_in>>

SecureBashToolRunAsync ==
  /\ fn_out = <<>>
  /\ fn_in.tool = "SecureBashTool"
  /\ fn_out' = << SecureBashTool_run_async(ToolSkills, fn_in) >>
  /\ UNCHANGED <<backend, skills, fs, last, prev, fn_in>>

NextTool == SkillToolRunAsync \/ SecureBashToolRunAsync

SpecTool == InitTool /\ [][NextTool]_vars

----------------------------------------------------------------------------
(* The repository contract, read off the constructed client *)

\* the _skills dict of the constructed in-memory client
current == skills[backend]

\* retrieve(skill_id) of the constructed in-memory client on the dict d
retrieve_in(d, skill_id) ==
  IF backend = "InMemoryClient" THEN InMemoryClient_retrieve(d, skill_id).out
  ELSE Skills_retrieve(d, skill_id).out

\* the headers list() of the constructed in-memory client returns on d
headers_in(d) ==
  IF backend = "InMemoryClient"
  THEN InMemoryClient_list(d).out.val.items
  ELSE LET items == Skills_list(d).out.val.items
       IN  [i \in 1..Len(items) |-> items[i][2]]

\* the identifier is absent from the repository
absent(skill_id) ==
  IF backend \in InMemoryBackends THEN skill_id \notin dict_keys(current)
  ELSE ~exists(base_path_child(fs, skill_id))

InMemory == backend \in InMemoryBackends

CreateThenRetrieve ==
  /\ prev.op = "create"
  /\ last.op = "retrieve"
  /\ last.arg = Skill_name(prev.arg)

SameNameAndDescription(got, skill) ==
  /\ Skill_name(got) = Skill_name(skill)
  /\ Skill_description(got) = Skill_description(skill)

C2_CreateReplacesWholesale ==
  (InMemory /\ last.op = "create") =>
    /\ last.ok
    /\ last.val = last.arg
    /\ retrieve_in(current, Skill_name(last.arg)) = Return(last.arg)
    /\ Cardinality({i \in 1..Len(headers_in(current)) :
                      headers_in(current)[i].name = Skill_name(last.arg)}) = 1
    /\ \E i \in 1..Len(headers_in(current)) :
         headers_in(current)[i] = last.arg.frontmatter

\* C2 witness: a create replaced a different skill stored under the same
\* name by the create just before it.
C2_Witness ==
  /\ InMemory
  /\ prev.op = "create"
  /\ last.op = "create"
  /\ Skill_name(prev.arg) = Skill_name(last.arg)
  /\ prev.arg # last.arg
  /\ Len(current) = 2

RetrieveStep == InMemoryRetrieve \/ SkillsRetrieve \/ FileSystemRetrieve

\* C3: retrieve(id) of an identifier absent from the repository fails with
\* the not-found error (a ValueError) and changes neither the dict nor the
\* storage; an identifier deleted by the call just before is absent.
C3_RetrieveAbsentFails ==
  /\ [][(RetrieveStep /\ absent(last'.arg)) =>
          /\ ~last'.ok
          /\ last'.exc = "ValueError"
          /\ last'.msg = "Skill not found"
          /\ skills' = skills
          /\ fs' = fs]_vars
  /\ [](InMemory /\ prev.op = "delete" /\ last.op = "retrieve"
         /\ last.arg = prev.arg
        => ~last.ok /\ last.exc = "ValueError")

\* C3 witness: an identifier that was stored has been deleted, and the
\* retrieve that followed failed while another skill stayed stored.
C3_Witness ==
  /\ InMemory
  /\ prev.op = "delete"
  /\ last.op = "retrieve"
  /\ last.arg = prev.arg
  /\ last.arg \in MemNames
  /\ ~last.ok
  /\ Len(current) >= 1

DeleteStep == InMemoryDelete \/ SkillsDelete

\* C4: on the in-memory backends delete(id) never raises; for an identifier
\* that is not stored it leaves the dict as it is, for a stored one it
\* removes exactly that entry (the others keep their values and their
\* order), and a retrieve(id) that follows fails.
C4_DeleteInMemory ==
  /\ [][DeleteStep =>
          LET id == last'.arg
              before == skills[backend]
              after == skills'[backend]
          IN  /\ last'.ok
              /\ id \notin dict_keys(before) => after = before
              /\ id \in dict_keys(before) =>
                   /\ dict_keys(after) = dict_keys(before) \ {id}
                   /\ Len(after) = Len(before) - 1
                   /\ \A k \in dict_keys(after) :
                        dict_get(after, k) = dict_get(before, k)
                   /\ \A k1, k2 \in dict_keys(after) :
                        (dict_index(before, k1) < dict_index(before, k2))
                          => (dict_index(after, k1) < dict_index(after, k2))
              /\ ~retrieve_in(after, id).ok]_vars
  /\ [](InMemory /\ prev.op = "delete" /\ last.op = "retrieve"
         /\ last.arg = prev.arg
        => ~last.ok)

\* C4 witness: a stored identifier was deleted while another entry stayed.
C4_Witness ==
  /\ InMemory
  /\ prev.op = "create"
  /\ last.op = "delete"
  /\ last.ok
  /\ last.arg = Skill_name(prev.arg)
  /\ last.arg \notin dict_keys(current)
  /\ Len(current) = 1

ToggleStep ==
  \/ InMemoryEnable \/ InMemoryDisable
  \/ SkillsEnable \/ SkillsDisable
  \/ FileSystemEnable \/ FileSystemDisable

C6_LocationNoneWhenAbsent ==
  (backend = "Skills" /\ last.op = "location" /\ absent(last.arg)) =>
    last.ok /\ last.val = None

\* C7, as stated: list() of the file-based backend never fails, and returns
\* an empty collection when the base path is missing or is not a directory.
C7_ListNeverFails ==
  (backend = "FileSystemClient" /\ last.op = "list") =>
    /\ last.ok
    /\ fs.root # "dir" => last.val.items = <<>>

\* C8: every retrieve(id) of the file-based backend returns what load_skill
\* makes of the storage as it is at that call: it succeeds exactly when the
\* skill directory loads, and then returns that Skill.
C8_RetrieveReadsStorage ==
  [][FileSystemRetrieve =>
       LET skill_dir == base_path_child(fs, last'.arg)
       IN  /\ last'.ok <=> (\E l \in load_skill(skill_dir) : l.ok)
           /\ last'.ok => Return(last'.val) \in load_skill(skill_dir)]_vars

\* C8 witness: two retrieves of one identifier in a row both succeeded and
\* returned different skills, the storage having changed in between.
C8_Witness ==
  /\ backend = "FileSystemClient"
  /\ prev.op = "retrieve"
  /\ last.op = "retrieve"
  /\ prev.arg = last.arg
  /\ prev.ok
  /\ last.ok
  /\ prev.val # last.val

\* C9, as stated: every skill stored in a repository has zero validation
\* violations, create having refused the others.
C9_StoredSkillsAreValid ==
  InMemory =>
    \A i \in 1..Len(current) : validate_skill(current[i][2]) = <<>>

----------------------------------------------------------------------------
(* The definition parser's contract on missing fields, under SpecParse *)

\* the document has a header block: it opens with the delimiter and holds a
\* second one
has_header(doc) == startswith(doc, Delimiter) /\ Len(split_2(doc)) = 3

header_block(doc) == split_2(doc)[2]

\* the header block is read as a mapping that has no such key
mapping_lacks(doc, key) ==
  /\ has_header(doc)
  /\ \A y \in yaml_safe_load(header_block(doc)) :
       y.kind = "dict" /\ key \notin dict_keys(y.items)

\* the header block is empty, or is read as something that is no mapping
not_a_mapping(doc) ==
  /\ has_header(doc)
  /\ \A y \in yaml_safe_load(header_block(doc)) :
       y.kind \in {"NoneType", "other"}

parsed == fn_out[1]

MissingName == "Missing required field in frontmatter: name"
MissingDescription == "Missing required field in frontmatter: description"

\* C10, as stated: for a header document that lacks the key name or the key
\* description, an empty header block and one that is no mapping included,
\* parse fails with the missing-field error naming a missing field.
C10_MissingFieldNamedAlways ==
  (fn_out # <<>>
   /\ (mapping_lacks(fn_in, "name") \/ mapping_lacks(fn_in, "description")
       \/ not_a_mapping(fn_in))) =>
    /\ ~parsed.ok
    /\ parsed.msg \in {MissingName, MissingDescription}

\* C10, amended: when the header block is a key/value mapping that lacks
\* name, parse fails naming name; when it has name and lacks description,
\* parse fails naming description; when the header block is empty or is not
\* a mapping, parse fails with "frontmatter must be a YAML mapping", which
\* names no field.  In none of these cases is a Header returned.
C10_MissingFieldNamed ==
  fn_out # <<>> =>
    /\ mapping_lacks(fn_in, "name") =>
         ~parsed.ok /\ parsed.exc = "ValueError" /\ parsed.msg = MissingName
    /\ (mapping_lacks(fn_in, "description") /\ ~mapping_lacks(fn_in, "name")) =>
         ~parsed.ok /\ parsed.exc = "ValueError"
         /\ parsed.msg = MissingDescription
    /\ not_a_mapping(fn_in) =>
         ~parsed.ok /\ parsed.exc = "ValueError"
         /\ parsed.msg = "SKILL.md frontmatter must be a YAML mapping"

\* C10 witness: a header with a name and other keys but no description was
\* parsed, and the failure names description.
C10_Witness ==
  /\ fn_out # <<>>
  /\ mapping_lacks(fn_in, "description")
  /\ ~mapping_lacks(fn_in, "name")
  /\ ~parsed.ok
  /\ parsed.msg = MissingDescription

----------------------------------------------------------------------------
(* The definition parser's contract on delimiters, under SpecParse *)

\* the delimiter stands at position i of the document
delimiter_at(doc, i) ==
  i >= 1 /\ i + 2 <= Len(doc) /\ SubSeq(doc, i, i + 2) = Delimiter

\* the least element of a non-empty set of positions
least(S) == CHOOSE i \in S : \A j \in S : i <= j

\* positions of the first occurrence of the delimiter and of the first one
\* that begins after it has ended; 0 where there is none
first_delimiter(doc) ==
  LET at == {i \in 1..Len(doc) : delimiter_at(doc, i)}
  IN  IF at = {} THEN 0 ELSE least(at)

second_delimiter(doc) ==
  LET f == first_delimiter(doc)
      at == {i \in 1..Len(doc) : f > 0 /\ i >= f + 3 /\ delimiter_at(doc, i)}
  IN  IF at = {} THEN 0 ELSE least(at)

between_delimiters(doc) ==
  SubSeq(doc, first_delimiter(doc) + 3, second_delimiter(doc) - 1)

after_second_delimiter(doc) ==
  SubSeq(doc, second_delimiter(doc) + 3, Len(doc))

\* C11: parse accepts only input that begins with the delimiter; what it
\* returns is read from the text strictly between the first and the second
\* occurrence of the delimiter, the body is everything after the second
\* delimiter with surrounding whitespace trimmed, and input with fewer than
\* two delimiters fails.
C11_HeaderBetweenDelimiters ==
  fn_out # <<>> =>
    /\ parsed.ok =>
         /\ first_delimiter(fn_in) = 1
         /\ second_delimiter(fn_in) # 0
         /\ parsed.val.body = strip(after_second_delimiter(fn_in))
    /\ (first_delimiter(fn_in) = 1 /\ second_delimiter(fn_in) # 0) =>
         parsed \in {parse_loaded(y, strip(after_second_delimiter(fn_in))) :
                       y \in yaml_safe_load(between_delimiters(fn_in))}
    /\ second_delimiter(fn_in) = 0 => ~parsed.ok
    /\ first_delimiter(fn_in) # 1 =>
         /\ ~parsed.ok
         /\ parsed.msg = "SKILL.md must start with YAML frontmatter (---)"
    /\ (first_delimiter(fn_in) = 1 /\ second_delimiter(fn_in) = 0) =>
         parsed.msg = "SKILL.md frontmatter not properly closed with ---"

\* C11 witness: a document with three delimiters and whitespace round the
\* text after the second one was parsed into a Frontmatter whose body keeps
\* the third delimiter and has lost the surrounding whitespace.
C11_Witness ==
  /\ fn_out # <<>>
  /\ parsed.ok
  /\ contains(parsed.val.body, Delimiter)
  /\ parsed.val.body # after_second_delimiter(fn_in)
  /\ parsed.val.frontmatter.name = <<"a">>

----------------------------------------------------------------------------
(* The schema validator's contract, under SpecValidate *)

\* the messages of a list of violations
messages(errors) == {errors[i].msg : i \in 1..Len(errors)}

\* the rules of the specification, each read on its own

\* the name as the rules see it: trimmed and normalized
name_text(name) ==
  IF is_str(name) THEN normalize_NFKC(strip(name.v)) ELSE <<>>

UppercaseChars == {"A", "FW_A"}

name_is_empty(name) ==
  ~is_str(name) \/ \A i \in 1..Len(name.v) : name.v[i] \in WS

\* the messages of the name rules that the name, in that directory, breaks
broken_name_rules(name, skill_dir) ==
  LET text == name_text(name)
      n == Len(text)
  IN  (IF name_is_empty(name)
       THEN {"Field 'name' must be a non-empty string"} ELSE {})
      \cup (IF n > 64 THEN {"Skill name exceeds character limit"} ELSE {})
      \cup (IF \E i \in 1..n : text[i] \in UppercaseChars
            THEN {"Skill name must be lowercase"} ELSE {})
      \cup (IF n > 0 /\ (text[1] = "-" \/ text[n] = "-")
            THEN {"Skill name cannot start or end with a hyphen"} ELSE {})
      \cup (IF \E i \in 1..(n - 1) : text[i] = "-" /\ text[i + 1] = "-"
            THEN {"Skill name cannot contain consecutive hyphens"} ELSE {})
      \cup (IF \E i \in 1..n : ~isalnum(text[i]) /\ text[i] # "-"
            THEN {"Skill name contains invalid characters"} ELSE {})
      \cup (IF skill_dir # None /\ normalize_NFKC(skill_dir[1]) # text
            THEN {"Directory name must match skill name"} ELSE {})

broken_description_rules(description) ==
  (IF ~is_str(description)
      \/ \A i \in 1..Len(description.v) : description.v[i] \in WS
   THEN {"Field 'description' must be a non-empty string"} ELSE {})
  \cup (IF is_str(description) /\ Len(description.v) > 1024
        THEN {"Description exceeds character limit"} ELSE {})

broken_compatibility_rules(compatibility) ==
  (IF ~is_str(compatibility)
   THEN {"Field 'compatibility' must be a string"} ELSE {})
  \cup (IF is_str(compatibility) /\ Len(compatibility.v) > 500
        THEN {"Compatibility exceeds character limit"} ELSE {})

AllowedKeys ==
  {"name", "description", "license", "allowed-tools", "metadata",
   "compatibility"}

\* the messages of all the rules that a metadata dict breaks
broken_metadata_rules(metadata, skill_dir) ==
  LET keys == dict_keys(metadata)
  IN  (IF keys \subseteq AllowedKeys THEN {}
       ELSE {"Unexpected fields in frontmatter"})
      \cup (IF "name" \in keys
            THEN broken_name_rules(dict_get(metadata, "name"), skill_dir)
            ELSE {"Missing required field in frontmatter: name"})
      \cup (IF "description" \in keys
            THEN broken_description_rules(dict_get(metadata, "description"))
            ELSE {"Missing required field in frontmatter: description"})
      \cup (IF "compatibility" \in keys
            THEN broken_compatibility_rules(dict_get(metadata, "compatibility"))
            ELSE {})

returned == fn_out[1].val

\* C12: the rules are additive.  The list validate_name returns holds a
\* violation for every name rule the input breaks, an empty name in a
\* directory of another name included, and the list validate_metadata
\* returns holds one for every rule the dict breaks: no rule is skipped
\* because another one failed.
C12_RulesAdditive ==
  fn_out # <<>> =>
    /\ fn_in.fn = "validate_name" =>
         broken_name_rules(fn_in.name, fn_in.skill_dir)
           \subseteq messages(returned)
    /\ fn_in.fn = "validate_metadata" =>
         broken_metadata_rules(fn_in.metadata, fn_in.skill_dir)
           \subseteq messages(returned)

\* the characters that are lowercase alphanumerics
LowercaseAlnum ==
  {"a", "b", "d", "e", "1", "FW_a", "v", "l", "i", "s", "k", "f", "LIG_ffi"}

\* a hyphen stands first, last or next to another one
badly_hyphenated(s) ==
  \/ s # <<>> /\ (s[1] = "-" \/ s[Len(s)] = "-")
  \/ \E i \in 1..(Len(s) - 1) : s[i] = "-" /\ s[i + 1] = "-"

\* made only of lowercase alphanumerics and single interior hyphens
well_formed_name(s) ==
  /\ s # <<>>
  /\ \A i \in 1..Len(s) : s[i] \in LowercaseAlnum \/ s[i] = "-"
  /\ ~badly_hyphenated(s)

\* the name breaks one of the rules on case and hyphens
ill_formed_name(s) ==
  \/ \E i \in 1..Len(s) : s[i] \in UppercaseChars
  \/ badly_hyphenated(s)

named_keys(violation) == {violation.arg[i] : i \in 1..Len(violation.arg)}

\* C14: validate_metadata_fields returns an empty list exactly when the
\* keys of the header are a subset of {name, description, license,
\* allowed-tools, metadata, compatibility}; otherwise every extra key is
\* reported by name, and a header with one extra key yields exactly one
\* violation, naming that key.
C14_ExtraKeysReported ==
  (fn_out # <<>> /\ fn_in.fn = "validate_metadata_fields") =>
    LET keys == dict_keys(fn_in.metadata)
        extra == keys \ AllowedKeys
    IN  /\ returned = <<>> <=> keys \subseteq AllowedKeys
        /\ extra # {} =>
             /\ \A k \in extra :
                  \E i \in 1..Len(returned) : k \in named_keys(returned[i])
             /\ \A i \in 1..Len(returned) : named_keys(returned[i]) \subseteq extra
        /\ Cardinality(extra) = 1 =>
             /\ Len(returned) = 1
             /\ named_keys(returned[1]) = extra

\* C14 witness: validate_metadata_fields was applied to a header with name,
\* description and the two extra keys bogus-key and zzz-key, and the list
\* it returned names both.
C14_Witness ==
  /\ fn_out # <<>>
  /\ fn_in.fn = "validate_metadata_fields"
  /\ dict_keys(fn_in.metadata) =
       {"name", "description", "bogus-key", "zzz-key"}
  /\ Len(returned) = 1
  /\ named_keys(returned[1]) = {"bogus-key", "zzz-key"}

\* the header file validate reads in the directory, if it can be read
header_file(node) ==
  IF ~is_dir(node) THEN None
  ELSE IF exists(node.SKILL_md) THEN read_file(node.SKILL_md)
  ELSE IF exists(node.skill_md) THEN read_file(node.skill_md)
  ELSE None

\* the header cannot be loaded: no readable header file, or one that
\* parse_skill_md rejects
header_unusable(node) ==
  /\ is_dir(node)
  /\ \/ header_file(node) = None
     \/ \A md \in parse_skill_md(header_file(node)[1]) : ~md.ok

extra_keys_on_disk(node) ==
  IF header_file(node) = None \/ ~has_header(header_file(node)[1]) THEN {}
  ELSE {k \in {KeyOrder[i] : i \in 1..Len(KeyOrder)} \ AllowedKeys :
          \A y \in yaml_safe_load(header_block(header_file(node)[1])) :
            y.kind = "dict" /\ k \in dict_keys(y.items)}

\* C16: validate(directory) applies the rule on the set of header keys to
\* the header document on disk: when the header file has a top-level key
\* outside the allowed set, the returned list has a violation that names
\* the key.
C16_ValidateReportsExtraKeys ==
  (fn_out # <<>> /\ fn_in.fn = "validate" /\ fn_out[1].ok) =>
    \A k \in extra_keys_on_disk(fn_in.node) :
      \E i \in 1..Len(returned) : k \in named_keys(returned[i])

----------------------------------------------------------------------------
(* The binder's contract *)

\* the words of the argument string
words == _normalize_args(fn_in.args)

\* the argument set to_function_input returned
bound == fn_out[1].val

\* bound.kwargs as a mapping: the order of a dict does not count
keyword_mapping(kwargs) == {kwargs[i] : i \in 1..Len(kwargs)}

\* the value a returned argument set holds for a declared parameter
bound_value(sig, returned_input, name) ==
  LET positional == params_of(sig, "POSITIONAL_OR_KEYWORD")
      at == {i \in 1..Len(positional) : positional[i].name = name}
  IN  IF at # {} THEN returned_input.args[CHOOSE i \in at : TRUE]
      ELSE dict_get(returned_input.kwargs, name)

\* C17: for the signature (x: int, verbose: bool = False) and every integer
\* N, "N --verbose" binds to the positional sequence (N,) and the keyword
\* mapping {verbose: True}, and "N" binds to (N,) and {verbose: False}: the
\* flag parameter comes back in the keyword mapping.
C17_FlagInKeywordMapping ==
  (fn_out # <<>> /\ fn_in.sig = SigF) =>
    \A N \in {tok \in TokensF : is_int_literal(tok)} :
      /\ fn_in.args = N =>
           fn_out[1] = Return(FunctionInput(
                         << int_of(N) >>,
                         << <<<<"v", "e", "r", "b", "o", "s", "e">>, PyBool(FALSE)>> >>))
      /\ fn_in.args = N \o <<" ">> \o <<"-", "-", "v", "e", "r", "b", "o", "s", "e">> =>
           fn_out[1] = Return(FunctionInput(
                         << int_of(N) >>,
                         << <<<<"v", "e", "r", "b", "o", "s", "e">>, PyBool(TRUE)>> >>))

\* the words the parser of the signature leaves unconsumed
residue(sig, args) ==
  LET known == parse_known_args(ArgumentParser(sig), _normalize_args(args))
  IN  IF known.ok THEN known.val.extras ELSE <<>>

\* the entries of the unconsumed words: one for each --key, the last one
\* when a key is repeated
residue_entries(unknown) ==
  {<< replace(SubSeq(unknown[i], 3, Len(unknown[i])), "-", "_"),
      entry_value(values_after(unknown, i)) >> :
     i \in {j \in 1..Len(unknown) :
              /\ is_key(unknown[j])
              /\ \A k \in (j + 1)..Len(unknown) : unknown[k] # unknown[j]}}

\* C18: with a catch-all keyword parameter, every word the declared flags
\* and positional slots do not consume is parsed permissively: each --key
\* starts an entry whose value is made of the words up to the next --key
\* (none: True, one: that string, several: the list of them), hyphens of
\* the key become underscores, and the entries are in the returned keyword
\* mapping.
C18_ResidueInKeywordMapping ==
  (fn_out # <<>> /\ has_var_keyword(fn_in.sig) /\ fn_out[1].ok) =>
    residue_entries(residue(fn_in.sig, fn_in.args))
      \subseteq keyword_mapping(bound.kwargs)

\* the exceptions a caller's "except Exception" catches and can inspect
ExceptionClasses ==
  {"UnknownArgument", "ArgumentBindingError", "InvalidArgumentValue",
   "ValueError", "TypeError"}

\* C19: without a catch-all keyword parameter, an invocation with a word
\* that matches no declared flag or positional slot fails the bind with an
\* error the caller can catch and inspect, and no argument set is returned.
C19_UnknownArgumentRaised ==
  (/\ fn_out # <<>>
   /\ ~has_var_keyword(fn_in.sig)
   /\ residue(fn_in.sig, fn_in.args) # <<>>) =>
    /\ ~fn_out[1].ok
    /\ fn_out[1].exc \in ExceptionClasses

\* the boolean parameters of a signature that are bound to a flag
bool_flags(sig) ==
  {i \in 1..Len(sig) :
     /\ sig[i].kind \in {"POSITIONAL_OR_KEYWORD", "KEYWORD_ONLY"}
     /\ sig[i].type = "bool" /\ ~sig[i].is_list
     /\ sig[i].default \in {PyBool(TRUE), PyBool(FALSE)}
        \/ (sig[i].default = Empty /\ sig[i].kind = "KEYWORD_ONLY")}

\* a word that is the flag or an abbreviation of it
abbreviates(word, flag) ==
  is_key(word) /\ Len(word) <= Len(flag) /\ SubSeq(flag, 1, Len(word)) = word

\* C20: a boolean parameter with default True has the flag --no-<name> and
\* is False with the flag and True without it; one with default False or
\* with no default has the flag --<name> and is True with the flag and
\* False without it.  Read on the calls that bind without the flag: the
\* same call with the flag added at the end binds too.
C20_BooleanFlags ==
  fn_out # <<>> =>
    \A i \in bool_flags(fn_in.sig) :
      LET p == fn_in.sig[i]
          negated == p.default = PyBool(TRUE)
          flag == (IF negated THEN <<"-", "-", "n", "o", "-">>
                   ELSE <<"-", "-">>) \o replace(p.name, "_", "-")
          flag_absent == \A j \in 1..Len(words) : ~abbreviates(words[j], flag)
          plain == IF flag_absent THEN words
                   ELSE SubSeq(words, 1, Len(words) - 1)
          at_end == /\ words # <<>>
                    /\ words[Len(words)] = flag
                    /\ \A j \in 1..Len(plain) : ~abbreviates(plain[j], flag)
      IN  /\ (flag_absent /\ fn_out[1].ok) =>
               bound_value(fn_in.sig, bound, p.name) = PyBool(negated)
          /\ (at_end /\ to_function_input(fn_in.sig, join(plain)).ok) =>
               /\ fn_out[1].ok
               /\ bound_value(fn_in.sig, bound, p.name) = PyBool(~negated)

\* the part of a word before its first "="
option_of(word) ==
  IF contains(word, <<"=">>) THEN split_eq(word)[1] ELSE word

\* a word that gives a value to the parameter: its flag, the negation of
\* its flag, or an abbreviation of one of them
supplies(word, p) ==
  LET cli_name == replace(p.name, "_", "-")
  IN  \/ abbreviates(option_of(word), <<"-", "-">> \o cli_name)
      \/ abbreviates(option_of(word), <<"-", "-", "n", "o", "-">> \o cli_name)

\* the parameters that declare a default
defaulted(sig) ==
  {i \in 1..Len(sig) : sig[i].kind # "VAR_KEYWORD" /\ sig[i].default # Empty}

\* C21: a parameter that declares a default and gets no word of the
\* invocation is bound to the declared default; this includes a boolean
\* with default None and a List[...] flag.
C21_DefaultsApplied ==
  (fn_out # <<>> /\ fn_out[1].ok) =>
    \A i \in defaulted(fn_in.sig) :
      (\A j \in 1..Len(words) : ~supplies(words[j], fn_in.sig[i])) =>
        bound_value(fn_in.sig, bound, fn_in.sig[i].name)
          = fn_in.sig[i].default

\* the parameters without a default
required(sig) ==
  {i \in 1..Len(sig) : sig[i].kind # "VAR_KEYWORD" /\ sig[i].default = Empty}

\* the invocation has no value for the parameter: no word at all for a
\* positional one, no word with its flag for a keyword-only one
unsupplied(p) ==
  IF p.kind = "POSITIONAL_OR_KEYWORD" THEN words = <<>>
  ELSE \A j \in 1..Len(words) : ~supplies(words[j], p)

\* C22: an invocation without a value for a parameter that has no default
\* fails with ArgumentBindingError, an error the caller can catch, and a
\* successful bind returns no argument set where such a parameter holds a
\* placeholder instead of a value.
C22_RequiredCoverage ==
  fn_out # <<>> =>
    \A i \in required(fn_in.sig) :
      /\ unsupplied(fn_in.sig[i]) =>
           ~fn_out[1].ok /\ fn_out[1].exc \in ExceptionClasses
      /\ fn_out[1].ok =>
           bound_value(fn_in.sig, bound, fn_in.sig[i].name) # Empty

\* the namespace of the first pass: what the parser of the declared flags
\* and positional slots stored
first_pass(sig, args) ==
  parse_known_args(ArgumentParser(sig), _normalize_args(args)).val.ns

\* C29: with a catch-all keyword parameter, the entries parsed from the
\* words the first pass left over never change a declared parameter: each
\* declared parameter is returned with the value the first pass stored for
\* it, also when a left-over --key has the name of a declared parameter.
C29_ResidueKeepsDeclared ==
  (fn_out # <<>> /\ has_var_keyword(fn_in.sig) /\ fn_out[1].ok) =>
    \A i \in 1..Len(fn_in.sig) :
      fn_in.sig[i].kind # "VAR_KEYWORD" =>
        bound_value(fn_in.sig, bound, fn_in.sig[i].name)
          = dict_get(first_pass(fn_in.sig, fn_in.args), fn_in.sig[i].name)

----------------------------------------------------------------------------
(* The invariants of the in-memory repositories, under Spec *)

\* the names of the headers list() of the constructed in-memory client
\* returns on the dict d
names_in(d) == {headers_in(d)[i].name : i \in 1..Len(headers_in(d))}

\* the keys of what list() returns on d, where it returns a dict
listed_keys(d) ==
  LET items == Skills_list(d).out.val.items
  IN  {items[i][1] : i \in 1..Len(items)}

MemStep ==
  \/ InMemoryList \/ InMemoryCreate \/ InMemoryDelete \/ InMemoryRetrieve
  \/ InMemoryEnable \/ InMemoryDisable \/ InMemoryLocation
  \/ SkillsList \/ SkillsCreate \/ SkillsDelete \/ SkillsRetrieve
  \/ SkillsEnable \/ SkillsDisable \/ SkillsLocation

\* C26: on an in-memory backend every key of the dict is the name of the
\* skill stored under it, in every reachable state; the names list() returns
\* are none before the first call, gain exactly s.name at create(s), lose
\* exactly id at delete(id) and stay as they are at every other call, so
\* they are the names created and not deleted since their last create.
C26_KeysAreNames ==
  /\ [](InMemory =>
         /\ \A i \in 1..Len(current) : current[i][1] = Skill_name(current[i][2])
         /\ names_in(current) = dict_keys(current)
         /\ backend = "Skills" => listed_keys(current) = names_in(current)
         /\ last = NoCall => names_in(current) = {})
  /\ [][MemStep =>
          LET before == names_in(skills[backend])
              after == names_in(skills'[backend])
          IN  /\ last'.op = "create" => after = before \cup {Skill_name(last'.arg)}
              /\ last'.op = "delete" => after = before \ {last'.arg}
              /\ last'.op \notin {"create", "delete"} => after = before]_vars

\* C26 witness: a name was deleted and then created again while another
\* skill was stored, and list() gives the two names.
C26_Witness ==
  /\ InMemory
  /\ prev.op = "delete"
  /\ last.op = "create"
  /\ Skill_name(last.arg) = prev.arg
  /\ Len(current) = 2
  /\ names_in(current) = {<<"a">>, <<"b">>}

\* what a for loop over the value list() returned goes through: the items
\* of a list, the keys of a dict
iterate(v) ==
  IF v.type = "dict" THEN [i \in 1..Len(v.items) |-> v.items[i][1]]
  ELSE v.items

\* the two in-memory clients give the same outcome and leave the same dict
\* for every create, delete, retrieve, enable and disable on the dict d
same_calls(d) ==
  /\ \A skill \in MemSkills :
       InMemoryClient_create(d, skill) = Skills_create(d, skill)
  /\ \A id \in SkillIds :
       /\ InMemoryClient_delete(d, id) = Skills_delete(d, id)
       /\ InMemoryClient_retrieve(d, id) = Skills_retrieve(d, id)
       /\ InMemoryClient_enable(d, id) = Skills_enable(d, id)
       /\ InMemoryClient_disable(d, id) = Skills_disable(d, id)

\* C27: InMemoryClient and Skills, run side by side, agree: from the same
\* dict every create, delete, retrieve, enable and disable gives the same
\* outcome and leaves the same dict in both, and list() returns the same
\* collection of headers in both.
C27_BackendsAgree ==
  InMemory =>
    /\ same_calls(current)
    /\ iterate(InMemoryClient_list(current).out.val)
         = iterate(Skills_list(current).out.val)

\* retrieve(h.name) succeeds with a Skill whose header is h, for every
\* header h of the listing, whatever outcome retrieve has
retrievable(headers, outcomes(_)) ==
  \A i \in 1..Len(headers) :
    \A got \in outcomes(headers[i].name) :
      got.ok /\ got.val.frontmatter = headers[i]

\* C28: in every backend a successful retrieve(id) returns a Skill whose
\* name is id, and for every header h that list() returns, retrieve(h.name)
\* on the same repository succeeds and returns a Skill whose header is h;
\* on the file-based backend also when a directory's name differs from the
\* name its SKILL.md declares.
C28_ListedAreRetrievable ==
  /\ (last.op = "retrieve" /\ last.ok) => Skill_name(last.val) = last.arg
  /\ InMemory =>
       retrievable(headers_in(current),
                   LAMBDA name : {retrieve_in(current, name)})
  /\ backend = "FileSystemClient" =>
       \A listed \in FileSystemClient_list(fs) :
         listed.ok =>
           retrievable(listed.val.items,
                       LAMBDA name : FileSystemClient_retrieve(fs, name))

CreateStep == InMemoryCreate \/ SkillsCreate

ReadStep == InMemoryRetrieve \/ SkillsRetrieve \/ InMemoryList \/ SkillsList

\* C30: on an in-memory backend create(s) and delete(id) change only the
\* entry of s.name or id: retrieve of every other identifier gives the same
\* outcome on the dict before and after the call; retrieve and list leave
\* the dict as it is.
C30_FrameOfCreateAndDelete ==
  /\ [][CreateStep =>
          \A id \in SkillIds \ {Skill_name(last'.arg)} :
            retrieve_in(skills'[backend], id) = retrieve_in(skills[backend], id)]_vars
  /\ [][DeleteStep =>
          \A id \in SkillIds \ {last'.arg} :
            retrieve_in(skills'[backend], id) = retrieve_in(skills[backend], id)]_vars
  /\ [][ReadStep => skills' = skills]_vars

\* C30 witness: after a delete, a create has put its skill next to an entry
\* of another name, which is still the one stored.
C30_Witness ==
  /\ InMemory
  /\ prev.op = "delete"
  /\ last.op = "create"
  /\ prev.arg # Skill_name(last.arg)
  /\ Len(current) = 2
  /\ \E id \in dict_keys(current) \ {Skill_name(last.arg)} :
       retrieve_in(current, id).ok

----------------------------------------------------------------------------
(* The dispatchers' contract, under SpecTool *)

\* the call was made and is the run_script action of SkillTool on the
\* registered skill with a path
SkillToolRuns ==
  /\ fn_out # <<>>
  /\ fn_in.tool = "SkillTool"
  /\ fn_in.action = "run_script"
  /\ fn_in.skill_name \in dict_keys(ToolSkills)
  /\ fn_in.file_path # <<>>

\* the path inside the skill that SecureBashTool hands to _run_script
inner_path == SecureBashTool_parse_skill_path(ToolSkills, fn_in.path)[1][2]

\* the call was made and is the sh command of SecureBashTool on a path
\* under scripts/ of the registered skill
SecureBashToolRuns ==
  /\ fn_out # <<>>
  /\ fn_in.tool = "SecureBashTool"
  /\ fn_in.command = "sh"
  /\ SecureBashTool_parse_skill_path(ToolSkills, fn_in.path) # None
  /\ startswith(inner_path, <<"scripts", "/">>)

\* the path with one leading "scripts/" removed and nothing else changed
without_scripts_prefix(path) ==
  IF startswith(path, <<"scripts", "/">>) THEN SubSeq(path, 3, Len(path))
  ELSE path

\* C23: the key run_script looks up is the given path with one leading
\* "scripts/" stripped and nothing else changed (a path without the prefix
\* as given, "scripts/a/scripts/b.py" as "a/scripts/b.py"), and SkillTool
\* and SecureBashTool resolve the same path to the same key.
C23_ScriptKey ==
  /\ SkillToolRuns =>
       /\ SkillTool_script_name(fn_in.file_path)
            = without_scripts_prefix(fn_in.file_path)
       /\ SkillTool_script_name(fn_in.file_path)
            = SecureBashTool_script_name(fn_in.file_path)
  /\ SecureBashToolRuns =>
       /\ SecureBashTool_script_name(inner_path)
            = without_scripts_prefix(inner_path)
       /\ SecureBashTool_script_name(inner_path)
            = SkillTool_script_name(inner_path)

is_error(payload) == dict_keys(payload) = {"error"}

is_content(payload) == payload # <<>> /\ "error" \notin dict_keys(payload)

\* C24: every action of the two dispatchers, for every input, returns a
\* content payload or an error payload; no exception leaves run_async.
C24_NoExceptionEscapes ==
  fn_out # <<>> =>
    /\ fn_out[1].ok
    /\ is_error(fn_out[1].val) \/ is_content(fn_out[1].val)

\* the script the tool's key names in the skill, None if there is none
named_script ==
  get(ToolSkill.resources.scripts,
      IF fn_in.tool = "SkillTool" THEN SkillTool_script_name(fn_in.file_path)
      ELSE SecureBashTool_script_name(inner_path))

\* the named script is a FunctionScript whose callable returns normally for
\* the args of the call
returns_normally ==
  /\ named_script # None
  /\ named_script[1].type = "FunctionScript"
  /\ call(named_script[1].func[1], fn_in.args).ok

\* the payload holds the result, as a value or as {"result": result}
carries(payload, result) ==
  \E i \in 1..Len(payload) :
    payload[i][2] = result \/ payload[i][2] = << <<"result", result>> >>

\* C25: when run_script names a script registered as a FunctionScript and
\* its callable returns normally for the args, the dispatcher returns a
\* content payload that carries the result, not an error payload; for
\* SkillTool (action run_script) and for SecureBashTool (command sh).
C25_RunScriptReturnsResult ==
  ((SkillToolRuns \/ SecureBashToolRuns) /\ returns_normally) =>
    /\ fn_out[1].ok
    /\ is_content(fn_out[1].val)
    /\ carries(fn_out[1].val, call(named_script[1].func[1], fn_in.args).val)

============================================================================
